---- MODULE Spec2Model ----
(***************************************************************************)
(* Receipt-to-transaction matching of the Kreditkarten app.                *)
(*                                                                         *)
(* The scorer (matching.py: normalize_haendler, parse_datum,               *)
(* calculate_match_score) is modelled as operators computed the way the    *)
(* Python code computes them; the greedy auto-match request handler        *)
(* (app.py: auto_match_belege) is modelled as a state machine over the     *)
(* belege / transaktionen tables.                                          *)
(*                                                                         *)
(* Representation                                                          *)
(*   - a Python str is a sequence of one-character tokens; the token       *)
(*     "u:" stands for the letter u-umlaut and "e'" for e-acute ("U:" and  *)
(*     "E'" are their capitals);                                           *)
(*   - an optional value (a dict entry that may be None) is <<>> for None  *)
(*     and <<v>> for the value v;                                          *)
(*   - a score is an integer number of thousandths (0.375 is 375), an      *)
(*     amount is an integer number of thousandths of a currency unit       *)
(*     (45.00 is 45000): every product and sum the scorer forms on the     *)
(*     modelled inputs is exact at that scale.  Binary floating-point      *)
(*     rounding of the Python floats is not modelled.                      *)
(***************************************************************************)
EXTENDS Integers, Sequences, FiniteSets, TLC

(***************************************************************************)
(* Optional values.                                                        *)
(***************************************************************************)
None == <<>>

Some(v) == <<v>>

IsNone(o) == o = <<>>

\* Python truthiness of an optional str: None and "" are both falsy.
StrTruthy(o) == o # <<>> /\ o[1] # <<>>

\* Python truthiness of an optional number: None and 0 are both falsy.
NumTruthy(o) == o # <<>> /\ o[1] # 0

\* x or default, for an optional str.
StrOr(o, default) == IF StrTruthy(o) THEN o[1] ELSE default

(***************************************************************************)
(* Characters and the str methods the scorer uses.                         *)
(***************************************************************************)
UpperLetters ==
    <<"A","B","C","D","E","F","G","H","I","J","K","L","M","N","O","P","Q",
      "R","S","T","U","V","W","X","Y","Z","U:","E'">>

LowerLetters ==
    <<"a","b","c","d","e","f","g","h","i","j","k","l","m","n","o","p","q",
      "r","s","t","u","v","w","x","y","z","u:","e'">>

Digits == <<"0","1","2","3","4","5","6","7","8","9">>

RangeOf(seq) == { seq[i] : i \in 1..Len(seq) }

IndexOf(seq, c) == CHOOSE i \in 1..Len(seq) : seq[i] = c

IsSpace(c) == c = " "

DigitChars == RangeOf(Digits)

UpperChars == RangeOf(UpperLetters)

LowerChars == RangeOf(LowerLetters)

\* \w of the re module: letters, digits and the underscore.
WordChars == UpperChars \cup LowerChars \cup DigitChars \cup {"_"}

IsDigit(c) == c \in DigitChars

IsWordChar(c) == c \in WordChars

LowerChar(c) == IF c \in UpperChars THEN LowerLetters[IndexOf(UpperLetters, c)] ELSE c

UpperChar(c) == IF c \in LowerChars THEN UpperLetters[IndexOf(LowerLetters, c)] ELSE c

\* str.lower() and str.upper()
Lower(s) == [i \in 1..Len(s) |-> LowerChar(s[i])]

Upper(s) == [i \in 1..Len(s) |-> UpperChar(s[i])]

RECURSIVE LStrip(_)
LStrip(s) == IF s # <<>> /\ IsSpace(Head(s)) THEN LStrip(Tail(s)) ELSE s

RECURSIVE RStrip(_)
RStrip(s) ==
    IF s # <<>> /\ IsSpace(s[Len(s)]) THEN RStrip(SubSeq(s, 1, Len(s) - 1)) ELSE s

\* str.strip()
Strip(s) == RStrip(LStrip(s))

\* str.split(): the maximal runs of non-whitespace characters, in order.
RECURSIVE SplitFrom(_, _, _)
SplitFrom(s, i, word) ==
    IF i > Len(s)
    THEN IF word = <<>> THEN <<>> ELSE <<word>>
    ELSE IF IsSpace(s[i])
         THEN (IF word = <<>> THEN <<>> ELSE <<word>>) \o SplitFrom(s, i + 1, <<>>)
         ELSE SplitFrom(s, i + 1, Append(word, s[i]))

Split(s) == SplitFrom(s, 1, <<>>)

\* ' '.join(words)
RECURSIVE JoinSpace(_)
JoinSpace(words) ==
    IF words = <<>> THEN <<>>
    ELSE IF Len(words) = 1 THEN words[1]
    ELSE words[1] \o <<" ">> \o JoinSpace(Tail(words))

\* needle in haystack (substring test); the empty needle is in every str.
Contains(haystack, needle) ==
    \E i \in 0..(Len(haystack) - Len(needle)) :
        \A j \in 1..Len(needle) : haystack[i + j] = needle[j]

(***************************************************************************)
(* normalize_haendler                                                      *)
(***************************************************************************)
\* The suffix list; each entry is used as a regular expression, so the
\* character "." in 'e.k.' and 'co.' matches any character.
suffixes ==
    << <<"g","m","b","h">>, <<"a","g">>, <<"k","g">>, <<"o","h","g">>,
       <<"e",".","k",".">>, <<"u","g">>, <<"m","b","h">>, <<"c","o",".">>,
       <<"i","n","c">>, <<"l","t","d">>, <<"l","l","c">>, <<"c","o","r","p">>,
       <<"s","a">>, <<"s","r","l">>,
       <<"r","e","s","t","a","u","r","a","n","t">>, <<"h","o","t","e","l">>,
       <<"g","a","s","t","h","o","f">>, <<"c","a","f","e">>, <<"c","a","f","e'">> >>

\* \b at the gap in front of s[i] (i in 1..Len(s)+1).
WordAt(s, i) == i >= 1 /\ i <= Len(s) /\ IsWordChar(s[i])

Boundary(s, i) == WordAt(s, i - 1) # WordAt(s, i)

\* Length of the match of \b<pat>\b\.? starting at s[i], 0 when there is none.
MatchLen(s, pat, i) ==
    LET n == Len(pat) IN
    IF /\ i + n - 1 <= Len(s)
       /\ Boundary(s, i)
       /\ \A j \in 1..n : pat[j] = "." \/ pat[j] = s[i + j - 1]
       /\ Boundary(s, i + n)
    THEN IF i + n <= Len(s) /\ s[i + n] = "." THEN n + 1 ELSE n
    ELSE 0

\* re.sub(rf'\b{suffix}\b\.?', '', s): leftmost non-overlapping matches removed.
RECURSIVE ReSubFrom(_, _, _)
ReSubFrom(s, pat, i) ==
    IF i > Len(s) THEN <<>>
    ELSE LET k == MatchLen(s, pat, i) IN
         IF k > 0 THEN ReSubFrom(s, pat, i + k)
         ELSE <<s[i]>> \o ReSubFrom(s, pat, i + 1)

RECURSIVE RemoveSuffixes(_, _)
RemoveSuffixes(s, n) ==
    IF n > Len(suffixes) THEN s
    ELSE RemoveSuffixes(ReSubFrom(s, suffixes[n], 1), n + 1)

\* re.sub(r'[^\w\s]', ' ', s)
ReplaceSpecial(s) ==
    [i \in 1..Len(s) |-> IF IsWordChar(s[i]) \/ IsSpace(s[i]) THEN s[i] ELSE " "]

\* name is an optional str; the result is a str.
normalize_haendler(name) ==
    IF ~StrTruthy(name) THEN <<>>
    ELSE LET lowered  == Strip(Lower(name[1]))
             stripped == RemoveSuffixes(lowered, 1)
             cleaned  == ReplaceSpecial(stripped)
             joined   == JoinSpace(Split(cleaned))
         IN  Strip(joined)

(***************************************************************************)
(* difflib.SequenceMatcher(None, a, b).ratio()                             *)
(***************************************************************************)
\* Length of the common run of a and b that ends at a[i], b[j] and does not
\* reach below alo, blo (the j2len table of find_longest_match).
RECURSIVE RunLen(_, _, _, _, _, _)
RunLen(a, b, i, j, alo, blo) ==
    IF i < alo \/ j < blo \/ a[i] # b[j] THEN 0
    ELSE 1 + RunLen(a, b, i - 1, j - 1, alo, blo)

\* find_longest_match(alo, ahi, blo, bhi) on 1-based closed ranges: the
\* longest block, and of those the one that ends first in a, then first in b.
\* The result is <<besti, bestj, bestsize>>.
find_longest_match(a, b, alo, ahi, blo, bhi) ==
    LET Ends == (alo..ahi) \X (blo..bhi)
        K(e) == RunLen(a, b, e[1], e[2], alo, blo)
        best == IF Ends = {} THEN 0
                ELSE CHOOSE k \in { K(e) : e \in Ends } : \A e \in Ends : K(e) <= k
    IN  IF best = 0 THEN <<alo, blo, 0>>
        ELSE LET hits == { e \in Ends : K(e) = best }
                 first == CHOOSE e \in hits :
                              \A f \in hits : e[1] < f[1] \/ (e[1] = f[1] /\ e[2] <= f[2])
             IN  <<first[1] - best + 1, first[2] - best + 1, best>>

\* Sum of the sizes of get_matching_blocks().
RECURSIVE MatchedChars(_, _, _, _, _, _)
MatchedChars(a, b, alo, ahi, blo, bhi) ==
    IF alo > ahi \/ blo > bhi THEN 0
    ELSE LET m == find_longest_match(a, b, alo, ahi, blo, bhi) IN
         IF m[3] = 0 THEN 0
         ELSE m[3] + MatchedChars(a, b, alo, m[1] - 1, blo, m[2] - 1)
                   + MatchedChars(a, b, m[1] + m[3], ahi, m[2] + m[3], bhi)

\* ratio() = 2.0 * matches / (len(a) + len(b)), kept as the fraction num/den;
\* 1.0 when both are empty.
ratio(a, b) ==
    IF Len(a) + Len(b) = 0 THEN [num |-> 1, den |-> 1]
    ELSE [num |-> 2 * MatchedChars(a, b, 1, Len(a), 1, Len(b)), den |-> Len(a) + Len(b)]

(***************************************************************************)
(* parse_datum                                                             *)
(*                                                                         *)
(* The records reach the scorer from sqlite rows and from decoded JSON, so *)
(* a date is a str or None.  A parsed date (a datetime at midnight) is     *)
(* kept as its proleptic Gregorian day number.                             *)
(***************************************************************************)
\* s.split(sep) for a one-character separator: empty fields are kept.
RECURSIVE SplitOnFrom(_, _, _, _)
SplitOnFrom(s, sep, i, field) ==
    IF i > Len(s) THEN <<field>>
    ELSE IF s[i] = sep THEN <<field>> \o SplitOnFrom(s, sep, i + 1, <<>>)
    ELSE SplitOnFrom(s, sep, i + 1, Append(field, s[i]))

SplitOn(s, sep) == SplitOnFrom(s, sep, 1, <<>>)

DigitVal(c) == IndexOf(Digits, c) - 1

AllDigits(f) == \A i \in 1..Len(f) : IsDigit(f[i])

RECURSIVE DigitsVal(_)
DigitsVal(f) ==
    IF f = <<>> THEN 0 ELSE 10 * DigitsVal(SubSeq(f, 1, Len(f) - 1)) + DigitVal(f[Len(f)])

\* %Y is \d\d\d\d, %y is \d\d, %m is 1[0-2]|0[1-9]|[1-9],
\* %d is 3[01]|[12]\d|0[1-9]|[1-9]| [1-9]   (the directive patterns of strptime)
FieldOk(f, directive) ==
    CASE directive = "Y" -> Len(f) = 4 /\ AllDigits(f)
      [] directive = "y" -> Len(f) = 2 /\ AllDigits(f)
      [] directive = "m" -> /\ Len(f) \in {1, 2}
                            /\ AllDigits(f)
                            /\ DigitsVal(f) \in 1..12
      [] directive = "d" -> \/ /\ Len(f) \in {1, 2}
                               /\ AllDigits(f)
                               /\ DigitsVal(f) \in 1..31
                            \/ /\ Len(f) = 2
                               /\ f[1] = " "
                               /\ IsDigit(f[2])
                               /\ DigitVal(f[2]) \in 1..9

FieldVal(f, directive) ==
    LET v == DigitsVal(IF f[1] = " " THEN Tail(f) ELSE f) IN
    IF directive = "y" THEN (IF v <= 68 THEN 2000 + v ELSE 1900 + v) ELSE v

IsLeap(y) == (y % 4 = 0 /\ y % 100 # 0) \/ y % 400 = 0

DaysInMonth(y, m) ==
    IF m = 2 THEN (IF IsLeap(y) THEN 29 ELSE 28)
    ELSE IF m \in {4, 6, 9, 11} THEN 30 ELSE 31

\* datetime(y, m, d).toordinal() up to a constant offset.
DayNumber(y, m, d) ==
    LET yy  == IF m <= 2 THEN y - 1 ELSE y
        era == yy \div 400
        yoe == yy - era * 400
        mp  == IF m > 2 THEN m - 3 ELSE m + 9
        doy == (153 * mp + 2) \div 5 + d - 1
        doe == yoe * 365 + yoe \div 4 - yoe \div 100 + doy
    IN  era * 146097 + doe

\* The formats list: the separator and the directives of the three fields.
formats ==
    << [sep |-> "-", dirs |-> <<"Y", "m", "d">>],
       [sep |-> ".", dirs |-> <<"d", "m", "Y">>],
       [sep |-> ".", dirs |-> <<"d", "m", "y">>],
       [sep |-> "/", dirs |-> <<"d", "m", "Y">>] >>

\* Faulty variant of strptime: a day past the end of its month and a
\* month past December are accepted.
strptime_lenient(s, fmt) ==
    LET fields == SplitOn(s, fmt.sep) IN
    IF Len(fields) # 3 \/ \E i \in 1..3 : ~(Len(fields[i]) \in {1, 2, 4} /\ AllDigits(fields[i]))
    THEN None
    ELSE LET at(dirs) == CHOOSE i \in 1..3 : fmt.dirs[i] \in dirs
             y == FieldVal(fields[at({"Y", "y"})], fmt.dirs[at({"Y", "y"})])
             m == FieldVal(fields[at({"m"})], "m")
             d == FieldVal(fields[at({"d"})], "d")
         IN  Some(DayNumber(y, m, d))

\* datetime.strptime(s, fmt): Some(day number), or None for ValueError.
strptime(s, fmt) ==
    LET fields == SplitOn(s, fmt.sep) IN
    IF Len(fields) # 3 \/ \E i \in 1..3 : ~FieldOk(fields[i], fmt.dirs[i]) THEN None
    ELSE LET at(dirs) == CHOOSE i \in 1..3 : fmt.dirs[i] \in dirs
             y == FieldVal(fields[at({"Y", "y"})], fmt.dirs[at({"Y", "y"})])
             m == FieldVal(fields[at({"m"})], "m")
             d == FieldVal(fields[at({"d"})], "d")
         IN  IF y < 1 \/ d > DaysInMonth(y, m) THEN None ELSE Some(DayNumber(y, m, d))

RECURSIVE TryFormats(_, _)
TryFormats(s, n) ==
    IF n > Len(formats) THEN None
    ELSE LET r == strptime(s, formats[n]) IN
         IF r # None THEN r ELSE TryFormats(s, n + 1)

\* Faulty variant of parse_datum: a missing date is read as 2024-03-10.
parse_datum_default(datum_str) ==
    IF ~StrTruthy(datum_str) THEN Some(DayNumber(2024, 3, 10))
    ELSE TryFormats(Strip(datum_str[1]), 1)

\* datum_str is an optional str; the result is an optional day number.
parse_datum(datum_str) ==
    IF ~StrTruthy(datum_str) THEN None ELSE TryFormats(Strip(datum_str[1]), 1)

(***************************************************************************)
(* The inputs of the model: the field values the transaction and receipt   *)
(* records are drawn from.  Comments give the Python literal.              *)
(***************************************************************************)
\* The largest day gap between the transaction date and a receipt date.
MaxTageDiff == 15

\* 'dd.03.2024'
MarchDate(d) ==
    <<Digits[(d \div 10) + 1], Digits[(d % 10) + 1], ".", "0", "3", ".", "2", "0", "2", "4">>

\* None, '2024-03-10', ' 10.03.24 ', '2024-13-10'
TxDatumInputs ==
    { None,
      Some(<<"2","0","2","4","-","0","3","-","1","0">>),
      Some(<<" ","1","0",".","0","3",".","2","4"," ">>),
      Some(<<"2","0","2","4","-","1","3","-","1","0">>) }

\* None, '10-03-2024', '31.02.2024', '2024-03-09', '25/02/2024', '24.02.24'
\* and '10.03.2024' ... up to MaxTageDiff days later
BelegDatumInputs ==
    { None,
      Some(<<"1","0","-","0","3","-","2","0","2","4">>),
      Some(<<"3","1",".","0","2",".","2","0","2","4">>),
      Some(<<"2","0","2","4","-","0","3","-","0","9">>),
      Some(<<"2","5","/","0","2","/","2","0","2","4">>),
      Some(<<"2","4",".","0","2",".","2","4">>) }
    \cup { Some(MarchDate(10 + k)) : k \in 0..MaxTageDiff }

\* None, 'EUR', 'usd', 'GBP'
TxWaehrungInputs ==
    { None, Some(<<"E","U","R">>), Some(<<"u","s","d">>), Some(<<"G","B","P">>) }

\* None, 'eur', 'USD', 'GBP'
BelegWaehrungInputs ==
    { None, Some(<<"e","u","r">>), Some(<<"U","S","D">>), Some(<<"G","B","P">>) }

\* betrag_eur and betrag of a transaction: None, 0, 45.00, -45.00
TxBetragEurInputs == { None, Some(0), Some(45000) }

TxBetragInputs == { None, Some(0), Some(45000), Some(-45000) }

\* Differences to 45.00 on both sides of every threshold of the amount score.
BetragDeltas == { -10, -9, 0, 9, 10, 99, 100, 999, 1000, 4999, 5000 }

BelegBetragInputs == { None, Some(0) } \cup { Some(45000 + d) : d \in BetragDeltas }

\* None, 'REWE MUENCHEN', 'REWE MARKT MUENCHEN', 'Shell 1234'
BeschreibungInputs ==
    { None,
      Some(<<"R","E","W","E"," ","M","U","E","N","C","H","E","N">>),
      Some(<<"R","E","W","E"," ","M","A","R","K","T"," ","M","U","E","N","C","H","E","N">>),
      Some(<<"S","h","e","l","l"," ","1","2","3","4">>) }

\* haendler of a transaction: None, 'Rewe'
TxHaendlerInputs == { None, Some(<<"R","e","w","e">>) }

\* haendler of a receipt: None, 'Rewe München', 'rewe muenchen gmbh', 'Aral AG'
BelegHaendlerInputs ==
    { None,
      Some(<<"R","e","w","e"," ","M","u:","n","c","h","e","n">>),
      Some(<<"r","e","w","e"," ","m","u","e","n","c","h","e","n"," ","g","m","b","h">>),
      Some(<<"A","r","a","l"," ","A","G">>) }

\* None, 'REWE Markt Summe 45,00 EUR', 'rewe 45.00', 'Tankstelle'
OcrTextInputs ==
    { None,
      Some(<<"R","E","W","E"," ","M","a","r","k","t"," ","S","u","m","m","e"," ","4","5",",","0","0"," ","E","U","R">>),
      Some(<<"r","e","w","e"," ","4","5",".","0","0">>),
      Some(<<"T","a","n","k","s","t","e","l","l","e">>) }

(***************************************************************************)
(* Memo tables: the parse of every input date and the normal form of every *)
(* input name are values of parse_datum and normalize_haendler, computed   *)
(* once.                                                                   *)
(***************************************************************************)
\* A memo table is a set of <<argument, value>> pairs.
Cached(table, arg) == \E e \in table : e[1] = arg

Lookup(table, arg) == (CHOOSE e \in table : e[1] = arg)[2]

DatumCache == { <<d, parse_datum(d)>> : d \in TxDatumInputs \cup BelegDatumInputs }

ParsedDatum(d) == IF Cached(DatumCache, d) THEN Lookup(DatumCache, d) ELSE parse_datum(d)

NameCache ==
    { <<n, normalize_haendler(n)>> :
        n \in BeschreibungInputs \cup TxHaendlerInputs \cup BelegHaendlerInputs }

Normalized(n) == IF Cached(NameCache, n) THEN Lookup(NameCache, n) ELSE normalize_haendler(n)

(***************************************************************************)
(* calculate_match_score                                                   *)
(***************************************************************************)
EUR == <<"E", "U", "R">>

Abs(x) == IF x < 0 THEN -x ELSE x

Min(x, y) == IF x <= y THEN x ELSE y

Max(x, y) == IF x >= y THEN x ELSE y

\* w * f for a weight w in thousandths and a factor f in thousandths.
Times(w, f) == (w * f) \div 1000

RECURSIVE IntStr(_)
IntStr(n) == IF n < 10 THEN <<Digits[n + 1]>> ELSE IntStr(n \div 10) \o <<Digits[(n % 10) + 1]>>

\* f"{betrag:.2f}" with the decimal separator sep; betrag in thousandths.
\* A tie (a 5 in the third decimal) rounds to the even cent.
FormatBetrag(betrag, sep) ==
    LET a     == Abs(betrag)
        low   == a \div 10
        rest  == a % 10
        cents == IF rest > 5 \/ (rest = 5 /\ low % 2 = 1) THEN low + 1 ELSE low
        frac  == cents % 100
    IN  (IF betrag < 0 THEN <<"-">> ELSE <<>>)
        \o IntStr(cents \div 100) \o <<sep>>
        \o <<Digits[(frac \div 10) + 1], Digits[(frac % 10) + 1]>>

\* Faulty variant of RejectPair: two foreign currencies are never rejected.
RejectPairNever(t_waehrung, b_waehrung) == FALSE

\* Line 98: both sides carry a foreign currency and the two differ.
RejectPair(t_waehrung, b_waehrung) ==
    t_waehrung # b_waehrung /\ t_waehrung # EUR /\ b_waehrung # EUR

\* Faulty variant of betrag_weight: the amount keeps its reduced weight when
\* one side is EUR and the other is not.
betrag_weight_kept(is_foreign_currency_match, is_currency_mismatch) ==
    IF is_foreign_currency_match \/ is_currency_mismatch THEN 200 ELSE 500

\* Faulty variant of haendler_weight: the merchant weight is raised for a
\* shared foreign currency only.
haendler_weight_foreign_only(is_foreign_currency_match, is_currency_mismatch) ==
    IF is_foreign_currency_match THEN 500 ELSE 200

\* Lines 108-121: the weights chosen from the currency situation.
betrag_weight(is_foreign_currency_match, is_currency_mismatch) ==
    IF is_foreign_currency_match THEN 200
    ELSE IF is_currency_mismatch THEN 0
    ELSE 500

haendler_weight(is_foreign_currency_match, is_currency_mismatch) ==
    IF is_foreign_currency_match THEN 500
    ELSE IF is_currency_mismatch THEN 500
    ELSE 200

\* Lines 127-136: the points for an amount difference (thousandths).
BetragScore(betrag_diff, weight) ==
    IF betrag_diff < 10 THEN weight
    ELSE IF betrag_diff < 100 THEN Times(weight, 900)
    ELSE IF betrag_diff < 1000 THEN Times(weight, 600)
    ELSE IF betrag_diff < 5000 THEN Times(weight, 200)
    ELSE 0

\* Faulty variant of DatumScore: the last tier ends a day early.
DatumScoreShort(tage_diff) ==
    IF tage_diff = 0 THEN 300
    ELSE IF tage_diff <= 1 THEN 250
    ELSE IF tage_diff <= 3 THEN 200
    ELSE IF tage_diff <= 7 THEN 100
    ELSE IF tage_diff < 14 THEN 50
    ELSE 0

\* Lines 146-155: the points for a gap of tage_diff days.
DatumScore(tage_diff) ==
    IF tage_diff = 0 THEN 300
    ELSE IF tage_diff <= 1 THEN 250
    ELSE IF tage_diff <= 3 THEN 200
    ELSE IF tage_diff <= 7 THEN 100
    ELSE IF tage_diff <= 14 THEN 50
    ELSE 0

\* Faulty variant of SimilarityScore: the comparisons are not strict.
SimilarityScoreInclusive(similarity, weight) ==
    IF 10 * similarity.num >= 9 * similarity.den THEN weight
    ELSE IF 10 * similarity.num >= 7 * similarity.den THEN Times(weight, 750)
    ELSE IF 10 * similarity.num >= 5 * similarity.den THEN Times(weight, 500)
    ELSE IF 10 * similarity.num >= 3 * similarity.den THEN Times(weight, 250)
    ELSE 0

\* Lines 171-178: the points for a similarity num/den.
SimilarityScore(similarity, weight) ==
    IF 10 * similarity.num > 9 * similarity.den THEN weight
    ELSE IF 10 * similarity.num > 7 * similarity.den THEN Times(weight, 750)
    ELSE IF 10 * similarity.num > 5 * similarity.den THEN Times(weight, 500)
    ELSE IF 10 * similarity.num > 3 * similarity.den THEN Times(weight, 250)
    ELSE 0

\* Faulty variant of WordBonus: common words earn nothing.
WordBonusNone(n, weight) == 0

\* Lines 181-187: the bonus for n common words.
WordBonus(n, weight) == IF n >= 1 THEN Min(50 * n, Times(weight, 500)) ELSE 0

\* Lines 205-214: the points for words_found of n_words description words.
OcrWordScore(words_found, n_words, weight) ==
    IF 10 * words_found >= 8 * n_words THEN weight
    ELSE IF 10 * words_found >= 6 * n_words THEN Times(weight, 750)
    ELSE IF 10 * words_found >= 4 * n_words THEN Times(weight, 500)
    ELSE IF 10 * words_found >= 2 * n_words THEN Times(weight, 250)
    ELSE 0

\* Faulty variant of OcrBetragBonus: the bonus is added without the cap.
OcrBetragBonusUncapped(ocr_score) == ocr_score + 100

\* Line 221: the amount found in the OCR text.
OcrBetragBonus(ocr_score) == Min(ocr_score + 100, 200)

\* Faulty variant of Clamp: the sum is returned as it is.
ClampNever(score) == score

\* Line 229: the returned score.
Clamp(score) == Min(score, 1000)

NoDetails ==
    [betrag_match |-> FALSE, betrag_diff |-> None, datum_diff |-> None,
     haendler_similarity |-> [num |-> 0, den |-> 1], ocr_match |-> FALSE,
     waehrung_mismatch |-> FALSE]

\* Lines 123-136: Betrag-Match.  The amounts are optional numbers.
BetragMatch(t_betrag, b_betrag, bw) ==
    IF NumTruthy(t_betrag) /\ NumTruthy(b_betrag) /\ bw > 0
    THEN [compared |-> TRUE,
          diff |-> Abs(t_betrag[1] - b_betrag[1]),
          score |-> BetragScore(Abs(t_betrag[1] - b_betrag[1]), bw)]
    ELSE [compared |-> FALSE, diff |-> 0, score |-> 0]

\* Lines 142-155: Datum-Match.  The dates are optional day numbers.
DatumMatch(t_datum, b_datum) ==
    IF t_datum # None /\ b_datum # None
    THEN [compared |-> TRUE,
          diff |-> Abs(t_datum[1] - b_datum[1]),
          score |-> DatumScore(Abs(t_datum[1] - b_datum[1]))]
    ELSE [compared |-> FALSE, diff |-> 0, score |-> 0]

\* Faulty variant of HaendlerPoints: the merchant points are capped at the
\* merchant weight.
HaendlerPointsCapped(similarity, common_words, hw) ==
    [compared |-> TRUE,
     similarity |-> similarity,
     score |-> Min(SimilarityScore(similarity, hw) + WordBonus(common_words, hw), hw)]

\* Lines 169-187: the merchant points for a similarity and a number of
\* common words.
HaendlerPoints(similarity, common_words, hw) ==
    [compared |-> TRUE,
     similarity |-> similarity,
     score |-> SimilarityScore(similarity, hw) + WordBonus(common_words, hw)]

\* Lines 166-187: Haendler-Match on the two normalized names.
HaendlerMatch(t_haendler, b_haendler, hw) ==
    IF t_haendler # <<>> /\ b_haendler # <<>>
    THEN HaendlerPoints(ratio(t_haendler, b_haendler),
                        Cardinality(RangeOf(Split(t_haendler))
                                      \cap RangeOf(Split(b_haendler))),
                        hw)
    ELSE [compared |-> FALSE, similarity |-> [num |-> 0, den |-> 1], score |-> 0]

\* Line 199: the words of the description of at least 3 characters.
DescriptionWords(t_beschreibung) ==
    SelectSeq(Split(t_beschreibung), LAMBDA w : Len(w) >= 3)

\* Line 202: the number of words found in the lower-cased OCR text.
WordsFound(t_words, ocr_normalized) ==
    Cardinality({ i \in 1..Len(t_words) : Contains(ocr_normalized, t_words[i]) })

\* Lines 217-220: the amount of the transaction is in the OCR text.
BetragInOcr(ocr_text, t_betrag) ==
    /\ NumTruthy(t_betrag)
    /\ \/ Contains(ocr_text, FormatBetrag(t_betrag[1], ","))
       \/ Contains(ocr_text, FormatBetrag(t_betrag[1], "."))

\* Lines 196-222: the OCR points.
OcrPoints(t_words, words_found, betrag_in_ocr, hw) ==
    LET ocr_words == IF t_words # <<>>
                     THEN OcrWordScore(words_found, Len(t_words), hw) ELSE 0
    IN  [words_match |-> t_words # <<>> /\ 10 * words_found >= 6 * Len(t_words),
         betrag_in_ocr |-> betrag_in_ocr,
         score |-> IF betrag_in_ocr THEN OcrBetragBonus(ocr_words) ELSE ocr_words]

\* Lines 192-222: OCR-Text Match.
OcrMatch(ocr_text, t_words, t_betrag, hw) ==
    OcrPoints(t_words, WordsFound(t_words, Lower(ocr_text)),
              BetragInOcr(ocr_text, t_betrag), hw)

\* Faulty variant of BetragMatched: only the first tier sets the flag.
BetragMatchedExact(betrag_diff) == betrag_diff < 10

\* Lines 127-132: details['betrag_match'] = True in the first two tiers.
BetragMatched(betrag_diff) == betrag_diff < 100

\* Faulty variant of TextScore: the two estimators are added up.
TextScoreSum(ocr_evaluated, haendler_score, ocr_score) ==
    haendler_score + (IF ocr_evaluated THEN ocr_score ELSE 0)

\* Lines 224-227: score += max(haendler_score, ocr_score) when the OCR text
\* was evaluated, score += haendler_score otherwise.
TextScore(ocr_evaluated, haendler_score, ocr_score) ==
    IF ocr_evaluated THEN Max(haendler_score, ocr_score) ELSE haendler_score

\* Lines 224-229: the sum of the parts and the value returned.  betrag,
\* datum, haendler and ocr are the results of the four matches;
\* ocr_evaluated is the condition of line 191.
ScoreResult(is_currency_mismatch, bw, hw, betrag, datum, haendler, ocr_evaluated, ocr) ==
    LET text_score == TextScore(ocr_evaluated, haendler.score, ocr.score)
    IN  [score |-> Clamp(betrag.score + datum.score + text_score),
         details |->
            [betrag_match |-> betrag.compared /\ BetragMatched(betrag.diff),
             betrag_diff |-> IF betrag.compared THEN Some(betrag.diff) ELSE None,
             datum_diff |-> IF datum.compared THEN Some(datum.diff) ELSE None,
             haendler_similarity |-> haendler.similarity,
             ocr_match |-> ocr_evaluated /\ (ocr.words_match \/ ocr.betrag_in_ocr),
             waehrung_mismatch |-> is_currency_mismatch],
         parts |-> [rejected |-> FALSE, betrag_weight |-> bw, haendler_weight |-> hw,
                    betrag_score |-> betrag.score, datum_score |-> datum.score,
                    haendler_score |-> haendler.score,
                    ocr_evaluated |-> ocr_evaluated,
                    ocr_score |-> IF ocr_evaluated THEN ocr.score ELSE 0,
                    summe |-> betrag.score + datum.score + text_score]]

\* Faulty variant of ScoreParts: waehrung_mismatch is left False for a pair
\* that is scored.
ScorePartsUnflagged(transaktion, beleg, is_currency_mismatch, bw, hw, t_betrag, t_haendler, ocr_text) ==
    ScoreResult(FALSE, bw, hw,
                BetragMatch(t_betrag, beleg.betrag, bw),
                DatumMatch(ParsedDatum(transaktion.datum), ParsedDatum(beleg.datum)),
                HaendlerMatch(t_haendler, Normalized(beleg.haendler), hw),
                ocr_text # <<>> /\ t_haendler # <<>>,
                OcrMatch(ocr_text,
                         DescriptionWords(Lower(StrOr(transaktion.beschreibung, <<>>))),
                         t_betrag, hw))

\* Lines 104-229: the pair is scored under the weights bw and hw.
\* t_betrag is betrag_eur or betrag (line 104), t_haendler the normalized
\* haendler or beschreibung (lines 159-161), ocr_text line 190.
ScoreParts(transaktion, beleg, is_currency_mismatch, bw, hw, t_betrag, t_haendler, ocr_text) ==
    ScoreResult(is_currency_mismatch, bw, hw,
                BetragMatch(t_betrag, beleg.betrag, bw),
                DatumMatch(ParsedDatum(transaktion.datum), ParsedDatum(beleg.datum)),
                HaendlerMatch(t_haendler, Normalized(beleg.haendler), hw),
                ocr_text # <<>> /\ t_haendler # <<>>,
                OcrMatch(ocr_text,
                         DescriptionWords(Lower(StrOr(transaktion.beschreibung, <<>>))),
                         t_betrag, hw))

\* Lines 93-121: the currency situation of the two upper-cased codes.
ScoreCurrencies(transaktion, beleg, t_waehrung, b_waehrung) ==
    IF RejectPair(t_waehrung, b_waehrung)
    THEN [score |-> 0,
          details |-> [NoDetails EXCEPT !.waehrung_mismatch = TRUE],
          parts |-> [rejected |-> TRUE, betrag_weight |-> 0, haendler_weight |-> 0,
                     betrag_score |-> 0, datum_score |-> 0, haendler_score |-> 0,
                     ocr_evaluated |-> FALSE, ocr_score |-> 0, summe |-> 0]]
    ELSE ScoreParts(transaktion, beleg,
                    t_waehrung # b_waehrung,
                    betrag_weight(t_waehrung # EUR /\ t_waehrung = b_waehrung,
                                  t_waehrung # b_waehrung),
                    haendler_weight(t_waehrung # EUR /\ t_waehrung = b_waehrung,
                                    t_waehrung # b_waehrung),
                    IF NumTruthy(transaktion.betrag_eur)
                    THEN transaktion.betrag_eur ELSE transaktion.betrag,
                    Normalized(IF StrTruthy(transaktion.haendler)
                               THEN transaktion.haendler ELSE transaktion.beschreibung),
                    StrOr(beleg.ocr_text, <<>>))

\* The result of calculate_match_score: the returned score and details, and
\* in "parts" the values of the local variables the score is built from.
calculate_match_score(transaktion, beleg) ==
    ScoreCurrencies(transaktion, beleg,
                    Upper(StrOr(transaktion.waehrung, EUR)),
                    Upper(StrOr(beleg.waehrung, EUR)))

(***************************************************************************)
(* The scorer applied to one transaction and one receipt.                  *)
(***************************************************************************)
VARIABLES
    arg_transaktion,    \* the transaction dict passed to calculate_match_score
    arg_beleg,          \* the receipt dict passed to calculate_match_score
    result,         \* None before the call, Some(what the call returned) after
    db,             \* the committed rows of the tables transaktionen and belege
    conn,           \* the rows as the open transaction of the request's connection
                    \* sees them; None while the connection has written nothing
    am,             \* the local variables of the running auto_match_belege request
    log,            \* history: what the loop did for each receipt it has processed
    call,           \* a call of find_matches, suggest_matches or auto_match_all:
                    \* the arguments the caller holds and what the call returned
    peer            \* a second auto_match_belege request in another thread of
                    \* the server, while it is not the one taking a step: its
                    \* local variables, its connection and its history

vars == <<arg_transaktion, arg_beleg, result, db, conn, am, log, call, peer>>

scorer_vars == <<arg_transaktion, arg_beleg, result>>

request_vars == <<db, conn, am, log, peer>>

Transaktion(waehrung, betrag_eur, betrag, datum, beschreibung, haendler) ==
    [waehrung |-> waehrung, betrag_eur |-> betrag_eur, betrag |-> betrag,
     datum |-> datum, beschreibung |-> beschreibung, haendler |-> haendler]

Beleg(waehrung, betrag, datum, haendler, ocr_text) ==
    [waehrung |-> waehrung, betrag |-> betrag, datum |-> datum,
     haendler |-> haendler, ocr_text |-> ocr_text]

\* One currency pair of every regime: both EUR, the same foreign currency,
\* EUR against a foreign currency (either way round), two foreign currencies.
RegimePairs ==
    { <<None, None>>,
      <<Some(<<"u","s","d">>), Some(<<"U","S","D">>)>>,
      <<None, Some(<<"U","S","D">>)>>,
      <<Some(<<"G","B","P">>), None>>,
      <<Some(<<"u","s","d">>), Some(<<"G","B","P">>)>> }

TxDatumBase == Some(<<"2","0","2","4","-","0","3","-","1","0">>)

BeschreibungBase == Some(<<"R","E","W","E"," ","M","U","E","N","C","H","E","N">>)

BelegHaendlerBase ==
    Some(<<"r","e","w","e"," ","m","u","e","n","c","h","e","n"," ","g","m","b","h">>)

\* Every currency pair, with the other fields present or missing.
WaehrungInputs ==
    { <<Transaktion(tw, None, Some(45000), TxDatumBase, BeschreibungBase, None),
        Beleg(bw, bb, bd, bh, None)>> :
        tw \in TxWaehrungInputs, bw \in BelegWaehrungInputs,
        bb \in {None, Some(45000)}, bd \in {None, Some(MarchDate(10))},
        bh \in {None, BelegHaendlerBase} }

\* Every pair of amounts, in every regime.
BetragInputs ==
    { <<Transaktion(w[1], te, tb, TxDatumBase, BeschreibungBase, None),
        Beleg(w[2], bb, Some(MarchDate(10)), BelegHaendlerBase, None)>> :
        w \in RegimePairs, te \in TxBetragEurInputs, tb \in TxBetragInputs,
        bb \in BelegBetragInputs }

\* Every pair of dates, in every regime.
DatumInputs ==
    { <<Transaktion(w[1], None, Some(45000), td, BeschreibungBase, None),
        Beleg(w[2], Some(45000), bd, BelegHaendlerBase, None)>> :
        w \in RegimePairs, td \in TxDatumInputs, bd \in BelegDatumInputs }

\* Every combination of names and OCR text, in every regime.
TextInputs ==
    { <<Transaktion(w[1], None, tb, TxDatumBase, tx[1], tx[2]),
        Beleg(w[2], Some(45000), Some(MarchDate(10)), bx[1], bx[2])>> :
        w \in RegimePairs, tb \in {None, Some(45000)},
        tx \in BeschreibungInputs \X TxHaendlerInputs,
        bx \in BelegHaendlerInputs \X OcrTextInputs }

\* Every transaction against the receipt whose fields are all null.
NullBeleg == Beleg(None, None, None, None, None)

NullBelegInputs ==
    { <<Transaktion(tw, te, tb, td, tx[1], tx[2]), NullBeleg>> :
        tw \in TxWaehrungInputs, te \in TxBetragEurInputs, tb \in TxBetragInputs,
        td \in TxDatumInputs, tx \in BeschreibungInputs \X TxHaendlerInputs }

\* The exact-match scenario: 45.00 EUR on 2024-03-10 described
\* 'REWE MUENCHEN' against a receipt of 45.00 EUR on the same day from
\* 'Rewe München', the receipt date written '2024-03-10' or '10.03.2024'.
ExactTransaktion ==
    Transaktion(Some(EUR), None, Some(45000), TxDatumBase, BeschreibungBase, None)

ExactBelege ==
    { Beleg(Some(EUR), Some(45000), d,
            Some(<<"R","e","w","e"," ","M","u:","n","c","h","e","n">>), None) :
        d \in { TxDatumBase, Some(MarchDate(10)) } }

ScenarioInputs == { <<ExactTransaktion, b>> : b \in ExactBelege }

ScorerInputs ==
    WaehrungInputs \cup BetragInputs \cup DatumInputs \cup TextInputs \cup NullBelegInputs
        \cup ScenarioInputs

(***************************************************************************)
(* The tables and the request handler auto_match_belege.                   *)
(*                                                                         *)
(* A row of transaktionen carries the columns the handler and the scorer   *)
(* read and write; a row of belege carries transaktion_id, match_typ,      *)
(* match_confidence and the decoded extrahierte_daten (None when the       *)
(* column is NULL or does not decode).  The stored file and its name,      *)
(* which the handler renames, are not part of the modelled state; the      *)
(* SELECTs of the handler and the renaming of the file are taken to        *)
(* succeed, the UPDATEs and the commit may raise sqlite3.OperationalError. *)
(***************************************************************************)
\* The number of rows of each table.
NumTransaktionen == 2

NumBelege == 2

TransaktionIds == 1..NumTransaktionen

BelegIds == 1..NumBelege

\* The statement of a transaction: the first row belongs to statement 2, the
\* others to statement 1.
AbrechnungOf(id) == IF id = 1 THEN 2 ELSE 1

\* Two statement lines: 45.00 EUR at 'REWE MUENCHEN' and 50.00 EUR at
\* 'Shell 1234', both on 2024-03-10.
AutoTxPool ==
    { Transaktion(Some(EUR), None, Some(45000), TxDatumBase, BeschreibungBase, None),
      Transaktion(Some(EUR), None, Some(50000), TxDatumBase,
                  Some(<<"S","h","e","l","l"," ","1","2","3","4">>), None) }

Extracted(betrag, datum, haendler) ==
    [betrag |-> betrag, datum |-> datum, haendler |-> haendler,
     waehrung |-> None, ocr_text |-> None]

\* extrahierte_daten: nothing decodable; 45.00 on 10.03.2024 at 'Rewe München';
\* 45.00 on 13.03.2024 without a merchant.
AutoExtractedPool ==
    { None,
      Some(Extracted(Some(45000), Some(MarchDate(10)),
                     Some(<<"R","e","w","e"," ","M","u:","n","c","h","e","n">>))),
      Some(Extracted(Some(45000), Some(MarchDate(13)), None)) }

\* The thresholds a request may carry (0.5 is the default).
ThresholdInputs == { 0, 500, 700, 1000 }

\* None: all open transactions; Some(1): those of statement 1.
AbrechnungInputs == { None, Some(1) }

\* "retry" is services/kreditkarten/app.py, which wraps the two updates in
\* db_execute_with_retry and skips the pair on an OperationalError;
\* "plain" is app.py, which calls conn.execute and lets the error escape.
Handlers == { "retry", "plain" }

TransaktionRow(id, data, status) ==
    [id |-> id, abrechnung_id |-> AbrechnungOf(id), status |-> status,
     waehrung |-> data.waehrung, betrag_eur |-> data.betrag_eur, betrag |-> data.betrag,
     datum |-> data.datum, beschreibung |-> data.beschreibung, haendler |-> data.haendler]

BelegRow(id, extracted, transaktion_id) ==
    [id |-> id, transaktion_id |-> transaktion_id,
     match_typ |-> IF transaktion_id = None THEN None ELSE Some("manual"),
     match_confidence |-> None, extrahierte_daten |-> extracted]

\* The place of a row of belege that was deleted.
NoRow == BelegRow(0, None, None)

\* Lines 1771-1785: the receipt dict built from a row of belege.
BelegDict(row) ==
    LET extracted == row.extrahierte_daten IN
    IF extracted = None
    THEN [id |-> row.id, betrag |-> None, datum |-> None, haendler |-> None,
          waehrung |-> Some(EUR), ocr_text |-> Some(<<>>)]
    ELSE [id |-> row.id, betrag |-> extracted[1].betrag, datum |-> extracted[1].datum,
          haendler |-> extracted[1].haendler,
          waehrung |-> IF extracted[1].waehrung = None THEN Some(EUR)
                       ELSE extracted[1].waehrung,
          ocr_text |-> IF extracted[1].ocr_text = None THEN Some(<<>>)
                       ELSE extracted[1].ocr_text]

\* The rows of a table whose id is in ids, in the order of their ids.
RECURSIVE RowsFrom(_, _, _)
RowsFrom(rows, ids, id) ==
    IF id > Len(rows) THEN <<>>
    ELSE (IF id \in ids THEN <<rows[id]>> ELSE <<>>) \o RowsFrom(rows, ids, id + 1)

\* Lines 1754-1756: SELECT * FROM belege WHERE transaktion_id IS NULL
SelectUnassignedBelege(view) ==
    RowsFrom(view.belege,
             { id \in BelegIds :
                 view.belege[id] # NoRow /\ view.belege[id].transaktion_id = None },
             1)

\* Lines 1759-1767: SELECT * FROM transaktionen WHERE [abrechnung_id = ? AND]
\* status = 'offen'
SelectOpenTransaktionen(view, abrechnung_id) ==
    RowsFrom(view.transaktionen,
             { id \in TransaktionIds :
                 /\ view.transaktionen[id].status = "offen"
                 /\ (abrechnung_id # None =>
                        view.transaktionen[id].abrechnung_id = abrechnung_id[1]) },
             1)

\* The score of every pair of the pools, computed once.
ScoreCache ==
    { <<p, calculate_match_score(p[1], p[2]).score>> :
        p \in AutoTxPool \X { BelegDict(BelegRow(0, e, None)) : e \in AutoExtractedPool } }

ScorerFields(t) == Transaktion(t.waehrung, t.betrag_eur, t.betrag, t.datum, t.beschreibung, t.haendler)

\* Line 1804: score, details = calculate_match_score(t, beleg)
MatchScore(t, b) == Lookup(ScoreCache, <<ScorerFields(t), [b EXCEPT !.id = 0]>>)

\* Faulty variant of Better: a transaction that only ties the best score so
\* far takes its place.
BetterOrEqual(score, best_score) == score >= best_score

\* Line 1806: if score > best_score
Better(score, best_score) == score > best_score

\* Faulty variant of KeepBetter: a transaction that ties a positive best
\* score takes the place of the earlier one.
KeepLater(best, t, score) ==
    IF score > 0 /\ score >= best.score THEN [match |-> Some(t), score |-> score] ELSE best

\* Lines 1806-1808: t takes the place of the best transaction so far when
\* its score is better.
KeepBetter(best, t, score) ==
    IF Better(score, best.score) THEN [match |-> Some(t), score |-> score] ELSE best

\* Lines 1795-1808: the scan for the best transaction, from index k on.
\* best is [match |-> best_match, score |-> best_score].
RECURSIVE BestMatch(_, _, _, _, _)
BestMatch(transaktionen, matched_transaktion_ids, b, k, best) ==
    IF k > Len(transaktionen) THEN best
    ELSE IF transaktionen[k].id \in matched_transaktion_ids
    THEN BestMatch(transaktionen, matched_transaktion_ids, b, k + 1, best)
    ELSE BestMatch(transaktionen, matched_transaktion_ids, b, k + 1,
                   KeepBetter(best, transaktionen[k], MatchScore(transaktionen[k], b)))

\* Faulty variant of GoodMatch: a score equal to the threshold is refused.
GoodMatchAbove(best, threshold) == best.match # None /\ best.score > threshold

\* Line 1811: if best_match and best_score >= threshold
GoodMatch(best, threshold) == best.match # None /\ best.score >= threshold

\* Lines 246-262: db_execute_with_retry.  attempts lists what conn.execute
\* does on each try: "ok", "locked" (OperationalError 'database is locked')
\* or "error" (any other OperationalError).  The result is "ok" or "raise".
max_retries == 3

RECURSIVE db_execute_with_retry(_, _)
db_execute_with_retry(attempts, attempt) ==
    IF attempt > max_retries \/ attempt > Len(attempts) THEN "raise"
    ELSE IF attempts[attempt] = "ok" THEN "ok"
    ELSE IF attempts[attempt] = "locked" /\ attempt < max_retries
         THEN db_execute_with_retry(attempts, attempt + 1)
    ELSE "raise"

AttemptOutcomes == [1..max_retries -> {"ok", "locked", "error"}]

\* What one UPDATE does under a handler: "ok" or "raise".
Execute(handler, attempts) ==
    IF handler = "retry" THEN db_execute_with_retry(attempts, 1)
    ELSE IF attempts[1] = "ok" THEN "ok" ELSE "raise"

\* Every result an UPDATE can have under each handler.
ExecuteResults == [handler \in Handlers |-> { Execute(handler, attempts) : attempts \in AttemptOutcomes }]

\* Lines 1844-1848: UPDATE belege SET transaktion_id = ?, match_typ = 'auto',
\* match_confidence = ? WHERE id = ?
UpdateBeleg(view, beleg_id, transaktion_id, confidence) ==
    [view EXCEPT !.belege[beleg_id] =
        [@ EXCEPT !.transaktion_id = Some(transaktion_id),
                  !.match_typ = Some("auto"),
                  !.match_confidence = Some(confidence)]]

\* Lines 1850-1852: UPDATE transaktionen SET status = 'zugeordnet' WHERE id = ?
UpdateTransaktion(view, transaktion_id) ==
    [view EXCEPT !.transaktionen[transaktion_id].status = "zugeordnet"]

\* round(best_score, 2), a tie going to the even hundredth.
Round2(score) ==
    LET low == score \div 10
        rest == score % 10
    IN  10 * (IF rest > 5 \/ (rest = 5 /\ low % 2 = 1) THEN low + 1 ELSE low)

\* Faulty variant of Claim: the decision is recorded but the transaction is
\* neither marked as matched nor taken out of the pool.
ClaimDecisionOnly(locals, b, best) ==
    [locals EXCEPT
        !.matches_found = Append(@, [beleg_id |-> b.id,
                                     transaktion_id |-> best.match[1].id,
                                     confidence |-> Round2(best.score)])]

\* Faulty variant of Claim: the claimed transaction stays in the pool and its
\* record is marked as assigned.
ClaimMarking(locals, b, best) ==
    [locals EXCEPT
        !.matched_transaktion_ids = @ \cup {best.match[1].id},
        !.matches_found = Append(@, [beleg_id |-> b.id,
                                     transaktion_id |-> best.match[1].id,
                                     confidence |-> Round2(best.score)]),
        !.transaktionen = [k \in 1..Len(@) |->
                              IF @[k].id = best.match[1].id
                              THEN [@[k] EXCEPT !.status = "zugeordnet"] ELSE @[k]]]

\* Lines 1858-1869: the transaction is claimed: its id joins
\* matched_transaktion_ids, the decision joins matches_found and the
\* transaction leaves the pool.
Claim(locals, b, best) ==
    [locals EXCEPT
        !.matched_transaktion_ids = @ \cup {best.match[1].id},
        !.matches_found = Append(@, [beleg_id |-> b.id,
                                     transaktion_id |-> best.match[1].id,
                                     confidence |-> Round2(best.score)]),
        !.transaktionen = SelectSeq(@, LAMBDA t : t.id # best.match[1].id)]

Idle ==
    [pc |-> "idle", handler |-> "retry", threshold |-> 0, abrechnung_id |-> None,
     belege |-> <<>>, transaktionen |-> <<>>, matched_transaktion_ids |-> {},
     matches_found |-> <<>>, idx |-> 1, response |-> None]

\* No request is made.
NoRequest == [Idle EXCEPT !.pc = "off"]

\* No second request is made.
NoPeer == [am |-> NoRequest, conn |-> None, log |-> <<>>]

\* The request arrives: lines 1748-1791.
AM_Start ==
    /\ am.pc = "idle"
    /\ \E handler \in Handlers, threshold \in ThresholdInputs,
          abrechnung_id \in AbrechnungInputs :
          am' = [Idle EXCEPT
                    !.pc = "loop",
                    !.handler = handler,
                    !.threshold = threshold,
                    !.abrechnung_id = abrechnung_id,
                    !.belege = [i \in 1..Len(SelectUnassignedBelege(db)) |->
                                   BelegDict(SelectUnassignedBelege(db)[i])],
                    !.transaktionen = SelectOpenTransaktionen(db, abrechnung_id)]
    /\ conn' = None
    /\ log' = <<>>
    /\ UNCHANGED <<db, scorer_vars, call, peer>>

\* What the log keeps of one pass through the loop body: the receipt, the
\* ids of the transactions still available to it, the best of them and its
\* score, what the UPDATEs that were executed did (none when no pair was
\* selected) and how the pass ended.
LogEntry(b, best, updates, outcome) ==
    [beleg_id |-> b.id,
     available |-> { am.transaktionen[k].id : k \in 1..Len(am.transaktionen) }
                       \ am.matched_transaktion_ids,
     best_match |-> IF best.match = None THEN None ELSE Some(best.match[1].id),
     best_score |-> best.score,
     updates |-> updates,
     outcome |-> outcome]

\* The rows the next statement of the connection works on: those of its
\* open transaction, or the committed ones when it has none (the first
\* UPDATE begins the transaction).
Pending == IF conn = None THEN db ELSE conn[1]

\* Faulty variant of WriteLockFree: a connection writes while another one has
\* uncommitted writes.
WriteLockIgnored == TRUE

\* Lines 236-243: the database has one writer at a time.  The first UPDATE of
\* a connection succeeds only when no other connection has a transaction
\* with uncommitted writes; otherwise it waits for the busy timeout and
\* raises 'database is locked'.
WriteLockFree == peer.conn = None

\* Lines 1842-1869 for the selected pair: r1 and r2 are what the two UPDATEs
\* do, v1 and v2 the tables after the first and after both.
AssignPair(b, best, next, r1, r2, v1, v2, updates) ==
    IF r1 = "ok" /\ r2 = "ok"
    THEN /\ conn' = Some(v2)
         /\ am' = Claim(next, b, best)
         /\ log' = Append(log, LogEntry(b, best, updates, "assigned"))
    ELSE IF am.handler = "retry"
    THEN \* except sqlite3.OperationalError: continue
         /\ conn' = IF r1 = "ok" THEN Some(v1) ELSE conn
         /\ am' = next
         /\ log' = Append(log, LogEntry(b, best, updates, "skipped"))
    ELSE \* the error escapes: the request ends with a 500, the
         \* connection is dropped with its uncommitted writes
         /\ conn' = None
         /\ am' = [am EXCEPT !.pc = "done",
                             !.response = Some([code |-> 500, details |-> <<>>])]
         /\ log' = Append(log, LogEntry(b, best, updates, "aborted"))

\* Lines 1811-1869: the receipt b with its best transaction.
MatchBeleg(b, best, next) ==
    IF ~GoodMatch(best, am.threshold)
    THEN /\ am' = next
         /\ log' = Append(log, LogEntry(b, best, <<>>, "no match"))
         /\ UNCHANGED conn
    ELSE \E r1 \in ExecuteResults[am.handler], r2 \in ExecuteResults[am.handler] :
            /\ r1 = "ok" => WriteLockFree
            /\ AssignPair(b, best, next, r1, r2,
                          UpdateBeleg(Pending, b.id, best.match[1].id, best.score),
                          UpdateTransaktion(
                              UpdateBeleg(Pending, b.id, best.match[1].id, best.score),
                              best.match[1].id),
                          IF r1 = "ok" THEN <<r1, r2>> ELSE <<r1>>)

\* One pass through the loop body (lines 1794-1869) for belege[idx].
AM_Beleg ==
    /\ am.pc = "loop"
    /\ am.idx <= Len(am.belege)
    /\ MatchBeleg(am.belege[am.idx],
                  BestMatch(am.transaktionen, am.matched_transaktion_ids,
                            am.belege[am.idx], 1, [match |-> None, score |-> 0]),
                  [am EXCEPT !.idx = @ + 1])
    /\ UNCHANGED <<db, scorer_vars, call, peer>>

\* conn.commit(), conn.close() and the response (lines 1871-1883).
AM_Commit ==
    /\ am.pc = "loop"
    /\ am.idx > Len(am.belege)
    /\ \E attempt \in {"ok", "error"} :
          IF attempt = "ok"
          THEN /\ db' = Pending
               /\ am' = [am EXCEPT !.pc = "done",
                                   !.response = Some([code |-> 200,
                                                      details |-> am.matches_found])]
          ELSE /\ db' = db
               /\ am' = [am EXCEPT !.pc = "done",
                                   !.response =
                                       Some([code |-> IF am.handler = "retry"
                                                      THEN 503 ELSE 500,
                                             details |-> IF am.handler = "retry"
                                                         THEN am.matches_found
                                                         ELSE <<>>])]
    /\ conn' = None
    /\ UNCHANGED <<log, scorer_vars, call, peer>>

\* The tables before the request: every transaction open and no receipt
\* assigned, or the last receipt already assigned by hand to the last
\* transaction.
InitialDbs ==
    { [transaktionen |->
          [id \in TransaktionIds |->
              TransaktionRow(id, tx[id],
                             IF pre /\ id = NumTransaktionen THEN "zugeordnet" ELSE "offen")],
       belege |->
          [id \in BelegIds |->
              BelegRow(id, ex[id],
                       IF pre /\ id = NumBelege THEN Some(NumTransaktionen) ELSE None)]] :
        tx \in [TransaktionIds -> AutoTxPool],
        ex \in [BelegIds -> AutoExtractedPool],
        pre \in BOOLEAN }

EmptyDb == [transaktionen |-> <<>>, belege |-> <<>>]

(***************************************************************************)
(* The request handlers zuordne_beleg and delete_beleg.  Each opens its    *)
(* own connection, writes and commits before it returns; a statement that  *)
(* raises ends the request with a 500 and nothing is committed.            *)
(***************************************************************************)
\* transaktion_id of the body of a zuordnen request: null to unassign, or
\* the id of a transaction.
ZuordnenInputs == { None } \cup { Some(t) : t \in TransaktionIds }

\* Lines 1668-1672: UPDATE belege SET transaktion_id = ?, match_typ = ?,
\* match_confidence = ? WHERE id = ?   (match_typ 'manuell', confidence 1.0)
AssignBeleg(view, id, transaktion_id) ==
    [view EXCEPT !.belege[id] =
        [@ EXCEPT !.transaktion_id = transaktion_id,
                  !.match_typ = Some("manuell"),
                  !.match_confidence = Some(1000)]]

\* Lines 1675-1678: UPDATE transaktionen SET status = 'offen' WHERE id = ?
\* for the transaction the receipt was assigned to.
ReleaseOld(view, old_transaktion_id) ==
    IF old_transaktion_id # None
    THEN [view EXCEPT !.transaktionen[old_transaktion_id[1]].status = "offen"]
    ELSE view

\* Lines 1681-1684: UPDATE transaktionen SET status = 'zugeordnet' WHERE id = ?
\* for the transaction of the request.
MarkNew(view, transaktion_id) ==
    IF transaktion_id # None THEN UpdateTransaktion(view, transaktion_id[1]) ELSE view

\* Lines 1620-1686: the tables after zuordne_beleg for an existing receipt.
zuordne_beleg(view, id, transaktion_id) ==
    MarkNew(ReleaseOld(AssignBeleg(view, id, transaktion_id),
                       view.belege[id].transaktion_id),
            transaktion_id)

\* Lines 1418-1423: UPDATE transaktionen SET status = 'offen' WHERE id = ? AND
\* status = 'zugeordnet' for the transaction of an assigned receipt.
ReleaseAssigned(view, transaktion_id) ==
    IF transaktion_id # None /\ view.transaktionen[transaktion_id[1]].status = "zugeordnet"
    THEN [view EXCEPT !.transaktionen[transaktion_id[1]].status = "offen"]
    ELSE view

\* Lines 1410-1427: the tables after delete_beleg for an existing receipt.
delete_beleg(view, id) ==
    [ReleaseAssigned(view, view.belege[id].transaktion_id) EXCEPT !.belege[id] = NoRow]

\* The response of a request that is not an auto-match pass.
Responded(code) == [Idle EXCEPT !.response = Some([code |-> code, details |-> <<>>])]

\* POST /api/belege/<id>/zuordnen
ZuordneBeleg ==
    /\ am.pc = "idle"
    /\ \E id \in BelegIds, transaktion_id \in ZuordnenInputs, outcome \in {"ok", "error"} :
          IF db.belege[id] = NoRow
          THEN db' = db /\ am' = Responded(404)
          ELSE IF outcome = "error"
          THEN db' = db /\ am' = Responded(500)
          ELSE db' = zuordne_beleg(db, id, transaktion_id) /\ am' = Responded(200)
    /\ UNCHANGED <<conn, log, scorer_vars, call, peer>>

\* DELETE /api/belege/<id>
DeleteBeleg ==
    /\ am.pc = "idle"
    /\ \E id \in BelegIds, outcome \in {"ok", "error"} :
          IF db.belege[id] = NoRow
          THEN db' = db /\ am' = Responded(404)
          ELSE IF outcome = "error"
          THEN db' = db /\ am' = Responded(500)
          ELSE db' = delete_beleg(db, id) /\ am' = Responded(200)
    /\ UNCHANGED <<conn, log, scorer_vars, call, peer>>

\* The auto-match request has returned; the server takes the next request.
AM_Return ==
    /\ am.pc = "done"
    /\ am' = [Idle EXCEPT !.response = am.response]
    /\ log' = <<>>
    /\ UNCHANGED <<db, conn, scorer_vars, call, peer>>

(***************************************************************************)
(* find_matches, suggest_matches and auto_match_all, called on lists of    *)
(* transaction and receipt dicts.                                          *)
(***************************************************************************)
\* The details of every pair of the pools, computed once.
DetailsCache ==
    { <<p, calculate_match_score(p[1], p[2]).details>> :
        p \in AutoTxPool \X { BelegDict(BelegRow(0, e, None)) : e \in AutoExtractedPool } }

\* Line 247: score, details = calculate_match_score(transaktion, beleg)
MatchDetails(t, b) == Lookup(DetailsCache, <<ScorerFields(t), [b EXCEPT !.id = 0]>>)

\* Lines 250-254: the entry appended to matches.
Match(transaktion, beleg) ==
    [beleg |-> beleg,
     confidence |-> MatchScore(transaktion, beleg),
     match_details |-> MatchDetails(transaktion, beleg)]

\* Line 249: if score >= threshold
Selected(score, threshold) == score >= threshold

\* Lines 244-254: the matches of belege[k], belege[k+1], ... in that order.
RECURSIVE Matches(_, _, _, _)
Matches(transaktion, belege, threshold, k) ==
    IF k > Len(belege) THEN <<>>
    ELSE (IF Selected(MatchScore(transaktion, belege[k]), threshold)
          THEN <<Match(transaktion, belege[k])>> ELSE <<>>)
         \o Matches(transaktion, belege, threshold, k + 1)

\* Faulty variant of Insert: m is put in front of the entries of its own
\* confidence.
InsertBeforeEqual(ranked, m) ==
    LET n == Cardinality({ i \in 1..Len(ranked) : ranked[i].confidence > m.confidence })
    IN  SubSeq(ranked, 1, n) \o <<m>> \o SubSeq(ranked, n + 1, Len(ranked))

\* m is put behind the entries of ranked whose confidence is not lower.
Insert(ranked, m) ==
    LET n == Cardinality({ i \in 1..Len(ranked) : ranked[i].confidence >= m.confidence })
    IN  SubSeq(ranked, 1, n) \o <<m>> \o SubSeq(ranked, n + 1, Len(ranked))

\* Line 256: sorted(matches, key=lambda x: x['confidence'], reverse=True).
\* The sort is stable, also with reverse=True: it is computed here by
\* inserting the entries one by one, in their order in matches.
RECURSIVE Sorted(_)
Sorted(matches) ==
    IF matches = <<>> THEN <<>>
    ELSE Insert(Sorted(SubSeq(matches, 1, Len(matches) - 1)), matches[Len(matches)])

find_matches(transaktion, belege, threshold) ==
    Sorted(Matches(transaktion, belege, threshold, 1))

\* Faulty variant of Slice: one entry more than the limit is kept.
SliceOneMore(matches, limit) ==
    IF limit >= 0 THEN SubSeq(matches, 1, Min(limit + 1, Len(matches)))
    ELSE SubSeq(matches, 1, Max(Len(matches) + limit, 0))

\* matches[:limit]; a negative limit counts from the end.
Slice(matches, limit) ==
    IF limit >= 0 THEN SubSeq(matches, 1, Min(limit, Len(matches)))
    ELSE SubSeq(matches, 1, Max(Len(matches) + limit, 0))

\* Lines 312-313: the threshold is 0.3.
suggest_matches(transaktion, belege, limit) ==
    Slice(find_matches(transaktion, belege, 300), limit)

\* Faulty variant of Classify: a transaction with several matches is reported
\* as matched with the best of them.
ClassifyBest(res, transaktion, matches) ==
    IF matches = <<>>
    THEN [res EXCEPT !.unmatched_transaktionen = Append(@, transaktion.id)]
    ELSE [res EXCEPT
            !.matched = Append(@, <<transaktion.id, matches[1].beleg.id,
                                    matches[1].confidence>>),
            !.unmatched_belege = @ \ {matches[1].beleg.id}]

\* Faulty variant of Classify: a receipt that is already in a matched tuple
\* is not matched again, the transaction is reported as unmatched instead.
ClassifyOnce(res, transaktion, matches) ==
    IF matches = <<>> \/ (Len(matches) = 1 /\ matches[1].beleg.id \notin res.unmatched_belege)
    THEN [res EXCEPT !.unmatched_transaktionen = Append(@, transaktion.id)]
    ELSE IF Len(matches) = 1
    THEN [res EXCEPT
            !.matched = Append(@, <<transaktion.id, matches[1].beleg.id,
                                    matches[1].confidence>>),
            !.unmatched_belege = @ \ {matches[1].beleg.id}]
    ELSE [res EXCEPT
            !.multiple = Append(@, <<transaktion.id,
                                     [i \in 1..Min(5, Len(matches)) |-> matches[i].beleg.id]>>)]

\* Lines 288-298: the transaction joins one of the three lists.
Classify(res, transaktion, matches) ==
    IF matches = <<>>
    THEN [res EXCEPT !.unmatched_transaktionen = Append(@, transaktion.id)]
    ELSE IF Len(matches) = 1
    THEN [res EXCEPT
            !.matched = Append(@, <<transaktion.id, matches[1].beleg.id,
                                    matches[1].confidence>>),
            !.unmatched_belege = @ \ {matches[1].beleg.id}]
    ELSE [res EXCEPT
            !.multiple = Append(@, <<transaktion.id,
                                     [i \in 1..Min(5, Len(matches)) |-> matches[i].beleg.id]>>)]

\* Lines 284-298: the loop over transaktionen, from index k on.
RECURSIVE ClassifyFrom(_, _, _, _, _)
ClassifyFrom(res, transaktionen, belege, threshold, k) ==
    IF k > Len(transaktionen) THEN res
    ELSE ClassifyFrom(Classify(res, transaktionen[k],
                               find_matches(transaktionen[k], belege, threshold)),
                      transaktionen, belege, threshold, k + 1)

\* unmatched_belege is returned as a list in the iteration order of a set;
\* it is kept as the set.
auto_match_all(transaktionen, belege, threshold) ==
    ClassifyFrom([matched |-> <<>>, multiple |-> <<>>, unmatched_transaktionen |-> <<>>,
                  unmatched_belege |-> { belege[i].id : i \in 1..Len(belege) }],
                 transaktionen, belege, threshold, 1)

\* The largest number of receipts and of transactions in a list.
MaxBelege == 6

MaxTransaktionen == 2

\* Lists of n receipts with the ids 1..n; the data of the receipts repeat
\* with a period of 1, 2 or 3, so that equal scores occur at several
\* positions.
BelegListInputs ==
    { [k \in 1..n |-> BelegDict(BelegRow(k, cycle[((k - 1) % Len(cycle)) + 1], None))] :
        n \in 0..MaxBelege,
        cycle \in UNION { [1..period -> AutoExtractedPool] : period \in 1..3 } }

\* Lists of up to MaxTransaktionen transactions with the ids 1..n.
TransaktionListInputs ==
    UNION { { [k \in 1..n |-> TransaktionRow(k, data[k], "offen")] :
                data \in [1..n -> AutoTxPool] } : n \in 0..MaxTransaktionen }

\* limit of suggest_matches (5 is the default).
LimitInputs == { -1, 0, 1, 2, 5 }

\* No call is made.
NoCall ==
    [pc |-> "off", fn |-> "none", transaktionen |-> <<>>, belege |-> <<>>,
     threshold |-> 0, limit |-> 0, result |-> None, again |-> None]

\* The calls: find_matches and suggest_matches take the transaction
\* transaktionen[1].
CallInputs ==
    { [NoCall EXCEPT !.pc = "call", !.fn = "find_matches",
                     !.transaktionen = <<t>>, !.belege = belege, !.threshold = threshold] :
        t \in { TransaktionRow(1, data, "offen") : data \in AutoTxPool },
        belege \in BelegListInputs, threshold \in ThresholdInputs }
    \cup
    { [NoCall EXCEPT !.pc = "call", !.fn = "suggest_matches",
                     !.transaktionen = <<t>>, !.belege = belege, !.limit = limit] :
        t \in { TransaktionRow(1, data, "offen") : data \in AutoTxPool },
        belege \in BelegListInputs, limit \in LimitInputs }
    \cup
    { [NoCall EXCEPT !.pc = "call", !.fn = "auto_match_all",
                     !.transaktionen = transaktionen, !.belege = belege,
                     !.threshold = threshold] :
        transaktionen \in TransaktionListInputs,
        belege \in BelegListInputs, threshold \in ThresholdInputs }

\* matches = find_matches(transaktion, belege, threshold)
FindMatches ==
    /\ call.pc = "call"
    /\ call.fn = "find_matches"
    /\ call' = [call EXCEPT
                  !.pc = "returned",
                  !.result = Some(find_matches(call.transaktionen[1], call.belege,
                                               call.threshold))]
    /\ UNCHANGED <<scorer_vars, request_vars>>

\* matches = suggest_matches(transaktion, belege, limit)
SuggestMatches ==
    /\ call.pc = "call"
    /\ call.fn = "suggest_matches"
    /\ call' = [call EXCEPT
                  !.pc = "returned",
                  !.result = Some(suggest_matches(call.transaktionen[1], call.belege,
                                                  call.limit))]
    /\ UNCHANGED <<scorer_vars, request_vars>>

\* The same call once more, on the arguments as the first call left them.
SuggestMatchesAgain ==
    /\ call.pc = "returned"
    /\ call.fn = "suggest_matches"
    /\ call' = [call EXCEPT
                  !.pc = "repeated",
                  !.again = Some(suggest_matches(call.transaktionen[1], call.belege,
                                                 call.limit))]
    /\ UNCHANGED <<scorer_vars, request_vars>>

\* result = auto_match_all(transaktionen, belege, threshold)
AutoMatchAll ==
    /\ call.pc = "call"
    /\ call.fn = "auto_match_all"
    /\ call' = [call EXCEPT
                  !.pc = "returned",
                  !.result = Some(auto_match_all(call.transaktionen, call.belege,
                                                 call.threshold))]
    /\ UNCHANGED <<scorer_vars, request_vars>>

Init ==
    /\ \E p \in ScorerInputs : arg_transaktion = p[1] /\ arg_beleg = p[2]
    /\ result = None
    /\ db = EmptyDb
    /\ conn = None
    /\ am = NoRequest
    /\ log = <<>>
    /\ call = NoCall
    /\ peer = NoPeer

\* score, details = calculate_match_score(transaktion, beleg)
Score ==
    /\ result = None
    /\ result' = Some(calculate_match_score(arg_transaktion, arg_beleg))
    /\ UNCHANGED <<arg_transaktion, arg_beleg, request_vars, call>>

Next == Score

Spec == Init /\ [][Next]_vars

(***************************************************************************)
(* One auto-match request over the tables.                                 *)
(***************************************************************************)
InitAutoMatch ==
    /\ db \in InitialDbs
    /\ conn = None
    /\ am = Idle
    /\ log = <<>>
    /\ arg_transaktion = Transaktion(None, None, None, None, None, None)
    /\ arg_beleg = NullBeleg
    /\ result = None
    /\ call = NoCall
    /\ peer = NoPeer

NextAutoMatch == AM_Start \/ AM_Beleg \/ AM_Commit

SpecAutoMatch == InitAutoMatch /\ [][NextAutoMatch]_vars

(***************************************************************************)
(* One call of find_matches, suggest_matches or auto_match_all.            *)
(***************************************************************************)
InitMatches ==
    /\ call \in CallInputs
    /\ peer = NoPeer
    /\ db = EmptyDb
    /\ conn = None
    /\ am = NoRequest
    /\ log = <<>>
    /\ arg_transaktion = Transaktion(None, None, None, None, None, None)
    /\ arg_beleg = NullBeleg
    /\ result = None

NextMatches == FindMatches \/ SuggestMatches \/ SuggestMatchesAgain \/ AutoMatchAll

SpecMatches == InitMatches /\ [][NextMatches]_vars

(***************************************************************************)
(* Every operation on its own inputs: a call of the scorer, an auto-match  *)
(* request, or a call of one of the list functions.                        *)
(***************************************************************************)
InitAll == Init \/ InitAutoMatch \/ InitMatches

NextAll == Next \/ NextAutoMatch \/ NextMatches

SpecAll == InitAll /\ [][NextAll]_vars

(***************************************************************************)
(* Two auto-match requests of services/kreditkarten/app.py at the same     *)
(* time, each in its own thread with its own connection.  A request takes  *)
(* its steps as the variables am, conn and log; the other one waits in     *)
(* peer.  A SELECT reads the committed rows; the first UPDATE of a request *)
(* begins its transaction, which holds the write lock until the commit.    *)
(***************************************************************************)
\* Lines 1748-1756: the request arrives and reads the unassigned receipts.
\* Both concurrent requests carry the default threshold of line 1749.
ConcurrentThresholds == { 500 }

AM_ReadBelege ==
    /\ am.pc = "idle"
    /\ \E threshold \in ConcurrentThresholds, abrechnung_id \in AbrechnungInputs :
          am' = [Idle EXCEPT
                    !.pc = "read",
                    !.handler = "retry",
                    !.threshold = threshold,
                    !.abrechnung_id = abrechnung_id,
                    !.belege = [i \in 1..Len(SelectUnassignedBelege(db)) |->
                                   BelegDict(SelectUnassignedBelege(db)[i])]]
    /\ conn' = None
    /\ log' = <<>>
    /\ UNCHANGED <<db, scorer_vars, call, peer>>

\* Lines 1759-1791: the request reads the open transactions.
AM_ReadTransaktionen ==
    /\ am.pc = "read"
    /\ am' = [am EXCEPT !.pc = "loop",
                        !.transaktionen = SelectOpenTransaktionen(db, am.abrechnung_id)]
    /\ UNCHANGED <<db, conn, log, scorer_vars, call, peer>>

\* The other thread runs: the two requests change places.
Switch ==
    /\ peer.am.pc \notin {"off", "done"}
    /\ am' = peer.am
    /\ conn' = peer.conn
    /\ log' = peer.log
    /\ peer' = [am |-> am, conn |-> conn, log |-> log]
    /\ UNCHANGED <<db, scorer_vars, call>>

InitConcurrent ==
    /\ db \in { d \in InitialDbs : \A id \in BelegIds : d.belege[id].transaktion_id = None }
    /\ conn = None
    /\ am = Idle
    /\ log = <<>>
    /\ peer = [am |-> Idle, conn |-> None, log |-> <<>>]
    /\ arg_transaktion = Transaktion(None, None, None, None, None, None)
    /\ arg_beleg = NullBeleg
    /\ result = None
    /\ call = NoCall

NextConcurrent ==
    AM_ReadBelege \/ AM_ReadTransaktionen \/ AM_Beleg \/ AM_Commit \/ Switch

SpecConcurrent == InitConcurrent /\ [][NextConcurrent]_vars

(***************************************************************************)
(* A sequence of requests over the tables, one at a time: manual           *)
(* assignments, deletions and auto-match passes, from tables in which      *)
(* every transaction is open and no receipt is assigned.                   *)
(***************************************************************************)
InitRequests ==
    /\ db \in { d \in InitialDbs : \A id \in BelegIds : d.belege[id].transaktion_id = None }
    /\ conn = None
    /\ am = Idle
    /\ log = <<>>
    /\ arg_transaktion = Transaktion(None, None, None, None, None, None)
    /\ arg_beleg = NullBeleg
    /\ result = None
    /\ call = NoCall
    /\ peer = NoPeer

NextRequests ==
    ZuordneBeleg \/ DeleteBeleg \/ AM_Start \/ AM_Beleg \/ AM_Commit \/ AM_Return

SpecRequests == InitRequests /\ [][NextRequests]_vars

(***************************************************************************)
(* Properties of the scorer, checked under Spec.                           *)
(***************************************************************************)
Scored == result # None

Returned == result[1]

\* The currency code the scorer works with: missing counts as EUR, case is
\* ignored.
CodeOf(waehrung) == Upper(StrOr(waehrung, EUR))

\* The regime of the current pair, from the two currency codes alone.
Regime ==
    LET t == CodeOf(arg_transaktion.waehrung)
        b == CodeOf(arg_beleg.waehrung)
    IN  IF t = b THEN (IF t = EUR THEN "default" ELSE "foreign")
        ELSE IF t = EUR \/ b = EUR THEN "mismatch" ELSE "rejected"

\* The amount of the transaction the scorer compares: betrag_eur, else betrag.
TxAmount ==
    IF NumTruthy(arg_transaktion.betrag_eur) THEN arg_transaktion.betrag_eur ELSE arg_transaktion.betrag

\* The largest number of points the date can earn.
DatumWeight == DatumScore(0)

\* C1: the score returned by calculate_match_score lies in [0, 1].
C1_ScoreBounds == Scored => Returned.score >= 0 /\ Returned.score <= 1000

\* A pair whose signals add up to more than 1.0 and whose score is 1.0.
C1_Witness == Scored /\ Returned.parts.summe > 1000 /\ Returned.score = 1000

\* C5: two different currency codes, neither of them EUR, give the score 0.0
\* with waehrung_mismatch set, whatever the other fields are.
C5_ForeignPairRejected ==
    (/\ Scored
     /\ CodeOf(arg_transaktion.waehrung) # CodeOf(arg_beleg.waehrung)
     /\ CodeOf(arg_transaktion.waehrung) # EUR
     /\ CodeOf(arg_beleg.waehrung) # EUR)
    => Returned.score = 0 /\ Returned.details.waehrung_mismatch

\* usd against GBP with equal amounts, equal dates and matching names.
C5_Witness ==
    /\ Scored
    /\ Regime = "rejected"
    /\ TxAmount = arg_beleg.betrag /\ TxAmount # None
    /\ ParsedDatum(arg_transaktion.datum) # None
    /\ ParsedDatum(arg_transaktion.datum) = ParsedDatum(arg_beleg.datum)
    /\ Normalized(arg_transaktion.beschreibung) = Normalized(arg_beleg.haendler)
    /\ Normalized(arg_beleg.haendler) # <<>>
    /\ Returned.score = 0

\* C6: a receipt whose fields are all null scores 0.0 against every
\* transaction, and the scorer returns (it does not raise).
C6_NullBelegScoresZero == (Scored /\ arg_beleg = NullBeleg) => Returned.score = 0

\* The null receipt scored against a transaction with every field set.
C6_Witness ==
    /\ Scored
    /\ arg_beleg = NullBeleg
    /\ arg_transaktion.waehrung # None /\ arg_transaktion.betrag_eur # None
    /\ arg_transaktion.betrag # None /\ ParsedDatum(arg_transaktion.datum) # None
    /\ arg_transaktion.beschreibung # None /\ arg_transaktion.haendler # None
    /\ Returned.score = 0

\* C7 as stated: in every regime that is scored the amount weight, the date
\* weight and the merchant weight sum to 1.0.
C7_WeightsSumToOne ==
    (Scored /\ Regime # "rejected")
    => Returned.parts.betrag_weight + DatumWeight + Returned.parts.haendler_weight = 1000

\* C7 amended: the three weights sum to 1.0 in the same-foreign-currency and
\* the default regime, and to 0.8 in the mismatch regime.
C7_WeightsSum ==
    (Scored /\ Regime # "rejected")
    => Returned.parts.betrag_weight + DatumWeight + Returned.parts.haendler_weight
         = (IF Regime = "mismatch" THEN 800 ELSE 1000)

\* A scored pair of each of the three regimes is reached: this one is the
\* mismatch regime with the date and the names compared.
C7_Witness ==
    /\ Scored
    /\ Regime = "mismatch"
    /\ Returned.details.datum_diff # None
    /\ Returned.parts.haendler_score > 0

\* C8: the weights follow from the currency pair alone: 0.2 / 0.5 for the
\* same foreign currency, 0.0 / 0.5 for EUR against a foreign currency,
\* 0.5 / 0.2 for EUR on both sides; the amount earns at most 0.2 in the
\* first and nothing in the second.
C8_WeightsByRegime ==
    (Scored /\ Regime # "rejected")
    => /\ Regime = "foreign" =>
            /\ Returned.parts.betrag_weight = 200
            /\ Returned.parts.haendler_weight = 500
            /\ Returned.parts.betrag_score <= 200
       /\ Regime = "mismatch" =>
            /\ Returned.parts.betrag_weight = 0
            /\ Returned.parts.haendler_weight = 500
            /\ Returned.parts.betrag_score = 0
       /\ Regime = "default" =>
            /\ Returned.parts.betrag_weight = 500
            /\ Returned.parts.haendler_weight = 200

\* usd against USD with equal amounts: the amount earns its full 0.2.
C8_Witness ==
    /\ Scored
    /\ Regime = "foreign"
    /\ arg_transaktion.waehrung # arg_beleg.waehrung
    /\ Returned.parts.betrag_score = 200

\* The amount points for the difference d under the weight w, as the
\* specification states them.
AmountPoints(d, w) ==
    IF d < 10 THEN w
    ELSE IF d < 100 THEN (9 * w) \div 10
    ELSE IF d < 1000 THEN (6 * w) \div 10
    ELSE IF d < 5000 THEN (2 * w) \div 10
    ELSE 0

\* C9 as stated: whenever both amounts are present and the amount weight w
\* is positive, the amount earns w, 0.9 w, 0.6 w, 0.2 w or 0 for a difference
\* below 0.01, 0.10, 1.00, 5.00 or not below 5.00.
C9_AmountPoints ==
    (/\ Scored
     /\ Regime # "rejected"
     /\ TxAmount # None /\ arg_beleg.betrag # None
     /\ Returned.parts.betrag_weight > 0)
    => Returned.parts.betrag_score =
         AmountPoints(Abs(TxAmount[1] - arg_beleg.betrag[1]), Returned.parts.betrag_weight)

\* The date points for a gap of g days, as the specification states them.
DatePoints(g) ==
    CASE g = 0 -> 300
      [] g = 1 -> 250
      [] g \in 2..3 -> 200
      [] g \in 4..7 -> 100
      [] g \in 8..14 -> 50
      [] g > 14 -> 0

\* C10: whenever both dates parse, the date earns 0.30, 0.25, 0.20, 0.10,
\* 0.05 or 0 for a gap of 0, 1, 2-3, 4-7, 8-14 or more days, in every regime.
C10_DatePoints ==
    (/\ Scored
     /\ Regime # "rejected"
     /\ ParsedDatum(arg_transaktion.datum) # None
     /\ ParsedDatum(arg_beleg.datum) # None)
    => Returned.parts.datum_score =
         DatePoints(Abs(ParsedDatum(arg_transaktion.datum)[1] - ParsedDatum(arg_beleg.datum)[1]))

\* A gap of 14 days earns 0.05 outside the default regime.
C10_Witness ==
    /\ Scored
    /\ Regime \in {"foreign", "mismatch"}
    /\ Returned.details.datum_diff = Some(14)
    /\ Returned.parts.datum_score = 50

\* The normalized name of the transaction (its haendler, else its
\* beschreibung) and of the receipt.
TxName ==
    Normalized(IF StrTruthy(arg_transaktion.haendler)
               THEN arg_transaktion.haendler ELSE arg_transaktion.beschreibung)

BelegName == Normalized(arg_beleg.haendler)

\* The raw-text estimator is evaluated: the receipt has raw text and the
\* transaction has a name.
OcrEvaluated == StrTruthy(arg_beleg.ocr_text) /\ TxName # <<>>

\* C11: the merchant/text contribution added to the score is the maximum of
\* the name-similarity score and the raw-text estimator score when the
\* estimator is evaluated, and the name-similarity score alone when it is
\* not; the returned score is the sum of the amount, date and merchant/text
\* contributions, clamped at 1.0.
C11_TextContributionIsMax ==
    (Scored /\ Regime # "rejected")
    => /\ Returned.parts.ocr_evaluated = OcrEvaluated
       /\ Returned.parts.summe - Returned.parts.betrag_score - Returned.parts.datum_score
            = (IF OcrEvaluated
               THEN Max(Returned.parts.haendler_score, Returned.parts.ocr_score)
               ELSE Returned.parts.haendler_score)
       /\ Returned.score = Min(Returned.parts.summe, 1000)

\* Both estimators earn points, the raw-text estimator more than the names,
\* and the sum stays below the clamp.
C11_Witness ==
    /\ Scored
    /\ OcrEvaluated
    /\ Returned.parts.haendler_score > 0
    /\ Returned.parts.ocr_score > Returned.parts.haendler_score
    /\ Returned.parts.summe < 1000
    /\ Returned.score
         = Returned.parts.betrag_score + Returned.parts.datum_score + Returned.parts.ocr_score

\* The words the two normalized names share.
SharedWords == RangeOf(Split(TxName)) \cap RangeOf(Split(BelegName))

\* The fraction of the merchant weight w a similarity earns, as the
\* specification states it.
SimilarityPoints(similarity, w) ==
    IF 10 * similarity.num > 9 * similarity.den THEN w
    ELSE IF 10 * similarity.num > 7 * similarity.den THEN (3 * w) \div 4
    ELSE IF 10 * similarity.num > 5 * similarity.den THEN w \div 2
    ELSE IF 10 * similarity.num > 3 * similarity.den THEN w \div 4
    ELSE 0

\* min(0.05 * n, 0.5 * w) for n >= 1 shared words.
OverlapBonus(n, w) == IF n >= 1 THEN Min(50 * n, w \div 2) ELSE 0

C13_OcrScoreAtMostCap ==
    (Scored /\ Regime # "rejected" /\ OcrEvaluated) => Returned.parts.ocr_score <= 200

\* The amount comparison is made: both amounts are present and non-zero and
\* the amount weight is positive.
AmountCompared ==
    /\ Regime # "rejected"
    /\ NumTruthy(TxAmount) /\ NumTruthy(arg_beleg.betrag)
    /\ Returned.parts.betrag_weight > 0

\* C14 as stated: betrag_match is true exactly when the amount comparison
\* was made and the absolute difference is below 0.01.
C14_BetragMatchWithinCent ==
    Scored => (Returned.details.betrag_match
               <=> (/\ Returned.details.betrag_diff # None
                    /\ Returned.details.betrag_diff[1] < 10))

\* C14 amended: betrag_match is true exactly when the amount comparison was
\* made and the absolute difference is below 0.10.
C14_BetragMatchWithinTenCent ==
    Scored => /\ Returned.details.betrag_diff # None <=> AmountCompared
              /\ Returned.details.betrag_match
                 <=> (/\ AmountCompared
                      /\ Abs(TxAmount[1] - arg_beleg.betrag[1]) < 100)

\* A difference of 0.099 sets the flag.
C14_Witness ==
    /\ Scored
    /\ AmountCompared
    /\ Abs(TxAmount[1] - arg_beleg.betrag[1]) = 99
    /\ Returned.details.betrag_match

\* C15 as stated: waehrung_mismatch is true exactly when the pair was
\* rejected because both sides carry distinct non-EUR currencies; it is
\* false for every pair that is scored.
C15_FlagOnlyOnRejection ==
    Scored => (Returned.details.waehrung_mismatch <=> Regime = "rejected")

\* C15 amended: waehrung_mismatch is true exactly when the two currency
\* codes differ: for the rejected pair of two foreign currencies and for the
\* scored pair of EUR against a foreign currency.
C15_FlagWhenCodesDiffer ==
    Scored => (Returned.details.waehrung_mismatch
               <=> CodeOf(arg_transaktion.waehrung) # CodeOf(arg_beleg.waehrung))

\* EUR against a foreign currency is scored above 0 with the flag set.
C15_Witness ==
    /\ Scored
    /\ Regime = "mismatch"
    /\ Returned.score > 0
    /\ Returned.details.waehrung_mismatch

\* The exact-match scenario has been scored.
ExactScored == Scored /\ arg_transaktion = ExactTransaktion /\ arg_beleg \in ExactBelege

\* C19 as stated: in the exact-match scenario the amount contributes 0.5,
\* the date 0.30, the similarity of the normalized names exceeds 0.9 so that
\* the merchant signal earns the full weight 0.2, and the score is 1.0.
C19_ExactMatchSimilarityAboveNine ==
    ExactScored
    => /\ Returned.parts.betrag_score = 500
       /\ Returned.parts.datum_score = 300
       /\ 10 * Returned.details.haendler_similarity.num
            > 9 * Returned.details.haendler_similarity.den
       /\ Returned.parts.haendler_score = 200
       /\ Returned.score = 1000

\* C19 amended: in the exact-match scenario the amount contributes 0.5, the
\* date 0.30, the similarity of 'rewe muenchen' and 'rewe münchen' is 22/25
\* = 0.88, which earns 0.75 * 0.2 = 0.15, the shared word 'rewe' adds 0.05,
\* so the merchant signal is 0.2 and the score is 1.0.
C19_ExactMatchByWordBonus ==
    ExactScored
    => /\ Returned.parts.betrag_score = 500
       /\ Returned.parts.datum_score = 300
       /\ Returned.details.haendler_similarity = [num |-> 22, den |-> 25]
       /\ SharedWords = {<<"r", "e", "w", "e">>}
       /\ Returned.parts.haendler_score = 150 + 50
       /\ Returned.score = 1000

C19_Witness == ExactScored /\ Returned.score = 1000 /\ Returned.parts.summe = 1000

\* The merchant/text contribution added to the score.
TextContribution ==
    Returned.parts.summe - Returned.parts.betrag_score - Returned.parts.datum_score

\* The word-overlap bonus of the current pair under its merchant weight.
PairBonus == OverlapBonus(Cardinality(SharedWords), Returned.parts.haendler_weight)

\* Every signal of the pair is at its best: the amounts are compared and
\* differ by less than 0.01 (or the amount weight is 0), the dates are the
\* same day and the normalized names are equal.
FullMatch ==
    /\ Regime # "rejected"
    /\ \/ Returned.parts.betrag_weight = 0
       \/ /\ NumTruthy(TxAmount) /\ NumTruthy(arg_beleg.betrag)
          /\ Abs(TxAmount[1] - arg_beleg.betrag[1]) < 10
    /\ ParsedDatum(arg_transaktion.datum) # None
    /\ ParsedDatum(arg_transaktion.datum) = ParsedDatum(arg_beleg.datum)
    /\ TxName # <<>> /\ TxName = BelegName

MalformedDates ==
    { Some(<<"2","0","2","4","-","1","3","-","1","0">>),
      Some(<<"1","0","-","0","3","-","2","0","2","4">>),
      Some(<<"3","1",".","0","2",".","2","0","2","4">>) }

\* The current pair with every malformed date replaced by a valid one, and
\* what calculate_match_score returns for it.
Redated(record, datum) ==
    IF record.datum \in MalformedDates THEN [record EXCEPT !.datum = datum] ELSE record

RedatedResult ==
    calculate_match_score(Redated(arg_transaktion, TxDatumBase),
                          Redated(arg_beleg, Some(MarchDate(10))))

\* C24: a date string that matches none of the accepted formats, on either
\* side, is treated as an unknown date: the call returns, the date earns 0,
\* datum_diff is null, and the amount and merchant/text contributions are
\* those of the same pair with a valid date.
C24_MalformedDateIsUnknown ==
    (/\ Scored
     /\ arg_transaktion.datum \in MalformedDates \/ arg_beleg.datum \in MalformedDates)
    => /\ Returned.parts.datum_score = 0
       /\ Returned.details.datum_diff = None
       /\ Returned.parts.betrag_score = RedatedResult.parts.betrag_score
       /\ TextContribution
            = RedatedResult.parts.summe - RedatedResult.parts.betrag_score
              - RedatedResult.parts.datum_score
       /\ Returned.score = Returned.parts.betrag_score + TextContribution

\* The receipt is dated '31.02.2024' and the transaction '2024-03-10': the
\* amount and the names still earn their points, the same pair with the
\* receipt dated '10.03.2024' earns 0.3 more before the clamp.
C24_Witness ==
    /\ Scored
    /\ arg_beleg.datum = Some(<<"3","1",".","0","2",".","2","0","2","4">>)
    /\ ParsedDatum(arg_transaktion.datum) # None
    /\ Returned.parts.betrag_score > 0
    /\ Returned.parts.haendler_score > 0
    /\ Returned.parts.datum_score = 0
    /\ RedatedResult.parts.datum_score = 300
    /\ RedatedResult.parts.summe = Returned.parts.summe + 300

\* C25 as stated: an amount that is present and equal to 0, on either side,
\* is handled like any other present amount: with a positive amount weight
\* the difference is recorded in betrag_diff and the piecewise amount points
\* are awarded (two amounts of 0 earn the full weight).
C25_ZeroAmountCompared ==
    (/\ Scored
     /\ Regime # "rejected"
     /\ Returned.parts.betrag_weight > 0
     /\ TxAmount # None /\ arg_beleg.betrag # None
     /\ TxAmount = Some(0) \/ arg_beleg.betrag = Some(0))
    => /\ Returned.details.betrag_diff = Some(Abs(TxAmount[1] - arg_beleg.betrag[1]))
       /\ Returned.parts.betrag_score
            = AmountPoints(Abs(TxAmount[1] - arg_beleg.betrag[1]),
                           Returned.parts.betrag_weight)
       /\ (TxAmount = Some(0) /\ arg_beleg.betrag = Some(0))
            => Returned.parts.betrag_score = Returned.parts.betrag_weight

\* The raw-text estimator of the current pair without the bonus for the
\* amount: the points of the word-match fraction alone.
OcrWordsOnly ==
    OcrMatch(StrOr(arg_beleg.ocr_text, <<>>),
             DescriptionWords(Lower(StrOr(arg_transaktion.beschreibung, <<>>))),
             None, Returned.parts.haendler_weight).score

\* C26 as stated: in every regime and for every word-match fraction the
\* raw-text estimator with the bonus for the amount found in the text is at
\* least its value without the bonus.
C26_BonusNeverLowers ==
    (Scored /\ Regime # "rejected" /\ OcrEvaluated)
    => Returned.parts.ocr_score >= OcrWordsOnly

(***************************************************************************)
(* Properties of the auto-match pass, checked under SpecAutoMatch.         *)
(***************************************************************************)
\* The assignment decisions the pass has emitted so far.
Decisions == am.matches_found

DecisionFor(transaktion_id, beleg_id) ==
    \E k \in 1..Len(Decisions) :
        /\ Decisions[k].transaktion_id = transaktion_id
        /\ Decisions[k].beleg_id = beleg_id

Emitted(beleg_id) ==
    \E k \in 1..Len(Decisions) : Decisions[k].beleg_id = beleg_id

\* The score of a transaction row against a receipt row.
PairScore(transaktion_id, beleg_id) ==
    MatchScore(db.transaktionen[transaktion_id], BelegDict(db.belege[beleg_id]))

\* The maximum score of a receipt over a non-empty set of transactions.
MaxScore(transaktion_ids, beleg_id) ==
    CHOOSE m \in { PairScore(t, beleg_id) : t \in transaktion_ids } :
        \A t \in transaktion_ids : PairScore(t, beleg_id) <= m

\* An UPDATE of the selected pair raised.
Failed(entry) == entry.updates # <<>> /\ entry.updates # <<"ok", "ok">>

\* C2: every transaction id and every receipt id appears in at most one
\* emitted decision, whatever the rows, their order and the threshold are.
C2_IdsAtMostOnce ==
    \A i, j \in 1..Len(Decisions) :
        i # j => /\ Decisions[i].transaktion_id # Decisions[j].transaktion_id
                 /\ Decisions[i].beleg_id # Decisions[j].beleg_id

\* Two receipts that score highest against the same transaction row data are
\* both assigned, to different transactions.
C2_Witness ==
    /\ Len(Decisions) = 2
    /\ PairScore(Decisions[1].transaktion_id, Decisions[2].beleg_id)
         >= PairScore(Decisions[2].transaktion_id, Decisions[2].beleg_id)

\* The transactions the pass started with.
InitialPool == IF log = <<>> THEN {} ELSE log[1].available

\* transaktion_id is the single highest-scoring transaction of the receipt.
UniqueBest(beleg_id, transaktion_id) ==
    /\ transaktion_id \in InitialPool
    /\ \A u \in InitialPool \ {transaktion_id} :
          PairScore(u, beleg_id) < PairScore(transaktion_id, beleg_id)

\* The receipts of log entries i and j, i the earlier one, both have
\* transaktion_id as their single highest-scoring candidate, at or above the
\* threshold.
Contested(i, j, transaktion_id) ==
    /\ i < j
    /\ UniqueBest(log[i].beleg_id, transaktion_id)
    /\ UniqueBest(log[j].beleg_id, transaktion_id)
    /\ PairScore(transaktion_id, log[i].beleg_id) >= am.threshold
    /\ PairScore(transaktion_id, log[j].beleg_id) >= am.threshold

AtMostOneDecision(transaktion_id) ==
    \A k, l \in 1..Len(Decisions) :
        (Decisions[k].transaktion_id = transaktion_id
           /\ Decisions[l].transaktion_id = transaktion_id) => k = l

\* A decision for the receipt of log entry j names a transaction other than
\* transaktion_id that was still available at its turn.
OtherAvailable(j, transaktion_id) ==
    \A k \in 1..Len(Decisions) :
        Decisions[k].beleg_id = log[j].beleg_id =>
            /\ Decisions[k].transaktion_id # transaktion_id
            /\ Decisions[k].transaktion_id \in log[j].available

\* C3 as stated: when two receipts have the same single transaction as
\* their highest-scoring candidate at or above the threshold, at most one
\* decision names that transaction, it belongs to the earlier receipt, and
\* the later receipt is matched, if at all, to a different transaction that
\* is still available.
C3_EarlierReceiptWins ==
    \A i, j \in 1..Len(log) : \A t \in TransaktionIds :
        Contested(i, j, t) =>
            /\ AtMostOneDecision(t)
            /\ \A k \in 1..Len(Decisions) :
                  Decisions[k].transaktion_id = t => Decisions[k].beleg_id = log[i].beleg_id
            /\ OtherAvailable(j, t)

\* C3 amended: when the earlier receipt scores the contested transaction
\* above 0, at most one decision names the transaction; the later receipt
\* gets it only if the pair of the earlier receipt was skipped because one
\* of its UPDATEs raised; the earlier receipt gets it whenever the
\* transaction is still available at its turn and both UPDATEs succeed; a
\* decision for the later receipt that names a different transaction names
\* one that was still available.
C3_EarlierReceiptWinsUnlessSkipped ==
    \A i, j \in 1..Len(log) : \A t \in TransaktionIds :
        (Contested(i, j, t) /\ PairScore(t, log[i].beleg_id) > 0) =>
            /\ AtMostOneDecision(t)
            /\ DecisionFor(t, log[j].beleg_id) => Failed(log[i])
            /\ (t \in log[i].available /\ ~Failed(log[i]))
                  => DecisionFor(t, log[i].beleg_id)
            /\ \A k \in 1..Len(Decisions) :
                  (Decisions[k].beleg_id = log[j].beleg_id
                     /\ Decisions[k].transaktion_id # t)
                  => Decisions[k].transaktion_id \in log[j].available

\* Two receipts contest a transaction; the earlier one gets it and the later
\* one is matched to another transaction.
C3_Witness ==
    \E i, j \in 1..Len(log) : \E t \in TransaktionIds :
        /\ Contested(i, j, t)
        /\ DecisionFor(t, log[i].beleg_id)
        /\ Emitted(log[j].beleg_id)
        /\ ~DecisionFor(t, log[j].beleg_id)

\* C4 as stated: for every receipt and every threshold, 0 included, a
\* decision is emitted for the receipt exactly when the maximum score over
\* the transactions still available is at least the threshold.
C4_DecisionIffMaxReachesThreshold ==
    \A k \in 1..Len(log) :
        Emitted(log[k].beleg_id)
        <=> (/\ log[k].available # {}
             /\ MaxScore(log[k].available, log[k].beleg_id) >= am.threshold)

\* C4 amended: a pair is selected for the receipt exactly when the maximum
\* score over the transactions still available is positive and at least the
\* threshold; the decision is emitted exactly when both UPDATEs of the
\* selected pair succeed, and it names a transaction that reaches the
\* maximum.
C4_DecisionIffPositiveMaxReachesThreshold ==
    \A k \in 1..Len(log) :
        /\ log[k].updates # <<>>
           <=> (/\ log[k].available # {}
                /\ MaxScore(log[k].available, log[k].beleg_id) > 0
                /\ MaxScore(log[k].available, log[k].beleg_id) >= am.threshold)
        /\ Emitted(log[k].beleg_id) <=> log[k].updates = <<"ok", "ok">>
        /\ \A t \in TransaktionIds :
              DecisionFor(t, log[k].beleg_id) =>
                  /\ t \in log[k].available
                  /\ PairScore(t, log[k].beleg_id)
                       = MaxScore(log[k].available, log[k].beleg_id)

\* A maximum equal to a positive threshold is assigned and, in the same
\* pass, a positive maximum below the threshold is not.
C4_Witness ==
    \E k, l \in 1..Len(log) :
        /\ am.threshold > 0
        /\ log[k].available # {}
        /\ MaxScore(log[k].available, log[k].beleg_id) = am.threshold
        /\ Emitted(log[k].beleg_id)
        /\ log[l].available # {}
        /\ MaxScore(log[l].available, log[l].beleg_id) > 0
        /\ MaxScore(log[l].available, log[l].beleg_id) < am.threshold
        /\ ~Emitted(log[l].beleg_id)

\* The transactions available to the receipt of a log entry that reach its
\* highest score.  The pool is read in the order of the ids.
TiedBest(entry) ==
    { t \in entry.available :
        PairScore(t, entry.beleg_id) = MaxScore(entry.available, entry.beleg_id) }

\* C21: whenever the scan selects a transaction for a receipt, its score is
\* the maximum over the transactions available at that moment, and among
\* the transactions that tie for that maximum it is the first in input
\* order; a decision emitted for the receipt names that transaction.
C21_FirstOfTiedBestChosen ==
    \A k \in 1..Len(log) :
        log[k].best_match # None =>
            /\ log[k].best_match[1] \in TiedBest(log[k])
            /\ log[k].best_score = MaxScore(log[k].available, log[k].beleg_id)
            /\ \A t \in TiedBest(log[k]) : log[k].best_match[1] <= t
            /\ \A t \in TransaktionIds :
                  DecisionFor(t, log[k].beleg_id) => t = log[k].best_match[1]

\* Two available transactions tie for the highest score of a receipt; the
\* first is selected and assigned, and the second is still there for the
\* next receipt.
C21_Witness ==
    \E k \in 1..Len(log) :
        /\ Cardinality(TiedBest(log[k])) = 2
        /\ log[k].best_score > 0
        /\ log[k].best_match = Some(1)
        /\ DecisionFor(1, log[k].beleg_id)
        /\ k < Len(log)
        /\ log[k + 1].available = {2}

\* The request of the handler with retry has committed.
RetryCommitted ==
    /\ am.pc = "done"
    /\ am.handler = "retry"
    /\ am.response # None /\ am.response[1].code = 200

\* C28 as stated: in the pass with retry, a pair one of whose UPDATEs raised
\* is skipped as a whole: after the commit its receipt is unassigned, its
\* transaction is 'offen' unless a later receipt of the pass was assigned to
\* it, the pair is not among the returned details, and every receipt that
\* is assigned references a transaction whose status is 'zugeordnet'.
C28_SkippedPairAtomic ==
    RetryCommitted
    => /\ \A k \in 1..Len(log) :
             log[k].outcome = "skipped" =>
                /\ db.belege[log[k].beleg_id].transaktion_id = None
                /\ ~DecisionFor(log[k].best_match[1], log[k].beleg_id)
                /\ (\A b \in BelegIds : ~DecisionFor(log[k].best_match[1], b))
                      => db.transaktionen[log[k].best_match[1]].status = "offen"
       /\ \A b \in BelegIds :
             db.belege[b].transaktion_id # None
             => db.transaktionen[db.belege[b].transaktion_id[1]].status = "zugeordnet"

(***************************************************************************)
(* Properties of the tables over a sequence of requests, checked under     *)
(* SpecRequests.                                                           *)
(***************************************************************************)
\* The receipts whose row references the transaction.
Referencing(transaktion_id) ==
    { b \in BelegIds :
        db.belege[b] # NoRow /\ db.belege[b].transaktion_id = Some(transaktion_id) }

\* C27 as stated: after any sequence of zuordnen requests, deletions and
\* auto-match passes a transaction has status 'zugeordnet' exactly when at
\* least one receipt row references it, and no transaction is referenced by
\* more than one receipt.
C27_StatusIffReferencedOnce ==
    \A t \in TransaktionIds :
        /\ db.transaktionen[t].status = "zugeordnet" <=> Referencing(t) # {}
        /\ Cardinality(Referencing(t)) <= 1

(***************************************************************************)
(* Properties of two concurrent auto-match requests, checked under         *)
(* SpecConcurrent.                                                         *)
(***************************************************************************)
\* Both requests have committed.
BothCommitted ==
    /\ am.pc = "done" /\ am.response[1].code = 200
    /\ peer.am.pc = "done" /\ peer.am.response[1].code = 200

\* No pair of either request had its first UPDATE executed and its second
\* one raise.
NoHalfPair ==
    /\ \A k \in 1..Len(log) : log[k].updates # <<"ok", "raise">>
    /\ \A k \in 1..Len(peer.log) : peer.log[k].updates # <<"ok", "raise">>

\* The decisions of the two requests.
BothDecisions ==
    { Decisions[k] : k \in 1..Len(Decisions) }
      \cup { peer.am.matches_found[k] : k \in 1..Len(peer.am.matches_found) }

\* The two requests name the same pairs wherever they name the same receipt
\* or the same transaction.
DecisionsAgree ==
    \A d, e \in BothDecisions :
        d.beleg_id = e.beleg_id <=> d.transaktion_id = e.transaktion_id

\* No transaction is referenced by two receipts and none is 'zugeordnet'
\* without a receipt that references it.
StoreConsistent ==
    \A t \in TransaktionIds :
        /\ Cardinality(Referencing(t)) <= 1
        /\ db.transaktionen[t].status = "zugeordnet" => Referencing(t) # {}

HasReturned(fn) == call.fn = fn /\ call.pc \in {"returned", "repeated"}

\* The score of the receipt at position k of the list against the
\* transaction t.
ScoreAt(t, k) == MatchScore(t, call.belege[k])

\* The positions of the receipts that score at least the threshold.
Reaching(t, threshold) == { k \in 1..Len(call.belege) : ScoreAt(t, k) >= threshold }

\* The position in the input list of the receipt of a returned entry.
PositionOf(entry) == CHOOSE k \in 1..Len(call.belege) : call.belege[k] = entry.beleg

\* ranked holds exactly the receipts at the positions of a set, each once
\* and with its score.
HoldsExactly(ranked, t, positions) ==
    /\ Len(ranked) = Cardinality(positions)
    /\ \A k \in positions : \E i \in 1..Len(ranked) : ranked[i].beleg = call.belege[k]
    /\ \A i \in 1..Len(ranked) :
          /\ \E k \in positions : ranked[i].beleg = call.belege[k]
          /\ ranked[i].confidence = ScoreAt(t, PositionOf(ranked[i]))

\* The scores do not increase along ranked, and entries of equal score are
\* in the order of the input list.
RankedStably(ranked) ==
    \A i, j \in 1..Len(ranked) :
        i < j => \/ ranked[i].confidence > ranked[j].confidence
                 \/ /\ ranked[i].confidence = ranked[j].confidence
                    /\ PositionOf(ranked[i]) < PositionOf(ranked[j])

\* C16: find_matches returns exactly the receipts whose score against the
\* transaction is at least the threshold, each once, ordered by
\* non-increasing score, receipts of equal score in their input order.
C16_FindMatchesRanked ==
    HasReturned("find_matches")
    => /\ HoldsExactly(call.result[1], call.transaktionen[1],
                       Reaching(call.transaktionen[1], call.threshold))
       /\ RankedStably(call.result[1])

\* A list whose scores are not in order is ranked: a receipt is left out,
\* one is kept with a score equal to the threshold, and two of equal score
\* follow a later receipt of a higher score.
C16_Witness ==
    /\ HasReturned("find_matches")
    /\ Len(call.result[1]) < Len(call.belege)
    /\ \E i \in 1..Len(call.result[1]) :
          call.result[1][i].confidence = call.threshold /\ call.threshold > 0
    /\ \E i, j, k \in 1..Len(call.result[1]) :
          /\ i < j /\ j < k
          /\ call.result[1][i].confidence > call.result[1][j].confidence
          /\ call.result[1][j].confidence = call.result[1][k].confidence
          /\ PositionOf(call.result[1][j]) < PositionOf(call.result[1][i])

EntriesFor(list, id) == { i \in 1..Len(list) : list[i][1] = id }

\* The number of entries of the three result lists that name the id.
Listed(res, id) ==
    Cardinality(EntriesFor(res.matched, id)) + Cardinality(EntriesFor(res.multiple, id))
      + Cardinality({ i \in 1..Len(res.unmatched_transaktionen) :
                        res.unmatched_transaktionen[i] = id })

\* ids lists at most five receipts that reach the threshold, all of them
\* when there are at most five, and no receipt left out scores higher than
\* one that is listed.
TopFive(ids, t, positions) ==
    /\ Len(ids) = Min(5, Cardinality(positions))
    /\ \A i, j \in 1..Len(ids) : i # j => ids[i] # ids[j]
    /\ \A i \in 1..Len(ids) : \E k \in positions : call.belege[k].id = ids[i]
    /\ \A k \in positions :
          (\A i \in 1..Len(ids) : ids[i] # call.belege[k].id)
          => \A l \in positions :
                (\E i \in 1..Len(ids) : ids[i] = call.belege[l].id)
                => ScoreAt(t, l) >= ScoreAt(t, k)

\* C18: auto_match_all puts every input transaction into exactly one of its
\* three result lists: matched when exactly one receipt scores at least the
\* threshold, multiple when two or more do, with at most the five
\* highest-scoring receipt ids, and unmatched_transaktionen when none does.
C18_AutoMatchAllClassifies ==
    HasReturned("auto_match_all")
    => \A n \in 1..Len(call.transaktionen) :
          /\ Listed(call.result[1], call.transaktionen[n].id) = 1
          /\ Cardinality(Reaching(call.transaktionen[n], call.threshold)) = 0
             <=> \E i \in 1..Len(call.result[1].unmatched_transaktionen) :
                    call.result[1].unmatched_transaktionen[i] = call.transaktionen[n].id
          /\ Cardinality(Reaching(call.transaktionen[n], call.threshold)) = 1
             <=> EntriesFor(call.result[1].matched, call.transaktionen[n].id) # {}
          /\ Cardinality(Reaching(call.transaktionen[n], call.threshold)) >= 2
             <=> EntriesFor(call.result[1].multiple, call.transaktionen[n].id) # {}
          /\ \A i \in EntriesFor(call.result[1].matched, call.transaktionen[n].id) :
                \E k \in Reaching(call.transaktionen[n], call.threshold) :
                   /\ call.result[1].matched[i][2] = call.belege[k].id
                   /\ call.result[1].matched[i][3] = ScoreAt(call.transaktionen[n], k)
          /\ \A i \in EntriesFor(call.result[1].multiple, call.transaktionen[n].id) :
                TopFive(call.result[1].multiple[i][2], call.transaktionen[n],
                        Reaching(call.transaktionen[n], call.threshold))

\* Six receipts reach the threshold for one transaction, which is listed
\* under multiple with five of them while a lower-scoring one is left out,
\* and the other transaction is unmatched.
C18_Witness ==
    /\ HasReturned("auto_match_all")
    /\ call.threshold > 0
    /\ call.result[1].unmatched_transaktionen # <<>>
    /\ \E n \in 1..Len(call.transaktionen) :
          /\ Cardinality(Reaching(call.transaktionen[n], call.threshold)) = 6
          /\ \E i \in EntriesFor(call.result[1].multiple, call.transaktionen[n].id) :
                /\ Len(call.result[1].multiple[i][2]) = 5
                /\ \E k \in Reaching(call.transaktionen[n], call.threshold) :
                      /\ \A j \in 1..5 : call.result[1].multiple[i][2][j] # call.belege[k].id
                      /\ \E l \in Reaching(call.transaktionen[n], call.threshold) :
                            ScoreAt(call.transaktionen[n], l)
                              > ScoreAt(call.transaktionen[n], k)

\* The matched tuples of the result that name the receipt id.
MatchedWith(res, beleg_id) == { i \in 1..Len(res.matched) : res.matched[i][2] = beleg_id }

\* The transactions of the call for which the receipt at position k is the
\* only one that reaches the threshold.
OnlyCandidateOf(k) ==
    { n \in 1..Len(call.transaktionen) :
        Reaching(call.transaktionen[n], call.threshold) = {k} }

\* C30 as stated: in the result of auto_match_all a receipt id appears in at
\* most one matched tuple, and unmatched_belege is exactly the set of input
\* receipt ids that appear in no matched tuple.
C30_ReceiptMatchedOnce ==
    HasReturned("auto_match_all")
    => \A k \in 1..Len(call.belege) :
          /\ Cardinality(MatchedWith(call.result[1], call.belege[k].id)) <= 1
          /\ call.belege[k].id \in call.result[1].unmatched_belege
             <=> MatchedWith(call.result[1], call.belege[k].id) = {}

\* C30 amended: a transaction id appears in at most one matched tuple; a
\* receipt id appears in one matched tuple for every transaction whose only
\* receipt reaching the threshold it is, which can be more than one; and
\* unmatched_belege is exactly the set of input receipt ids that appear in no
\* matched tuple.
C30_ReceiptMatchedPerTransaction ==
    HasReturned("auto_match_all")
    => /\ \A n \in 1..Len(call.transaktionen) :
             Cardinality(EntriesFor(call.result[1].matched, call.transaktionen[n].id)) <= 1
       /\ \A k \in 1..Len(call.belege) :
             /\ Cardinality(MatchedWith(call.result[1], call.belege[k].id))
                  = Cardinality(OnlyCandidateOf(k))
             /\ call.belege[k].id \in call.result[1].unmatched_belege
                <=> MatchedWith(call.result[1], call.belege[k].id) = {}
       /\ call.result[1].unmatched_belege
            \subseteq { call.belege[k].id : k \in 1..Len(call.belege) }

\* Two transactions with the same data are each matched to the one receipt
\* that reaches the threshold, and another receipt stays in unmatched_belege.
C30_Witness ==
    /\ HasReturned("auto_match_all")
    /\ call.threshold > 0
    /\ \E k \in 1..Len(call.belege) :
          /\ Cardinality(MatchedWith(call.result[1], call.belege[k].id)) = 2
          /\ call.belege[k].id \notin call.result[1].unmatched_belege
    /\ call.result[1].unmatched_belege # {}

(***************************************************************************)
(* The frame of the operations, checked under SpecAll.                     *)
(***************************************************************************)
IdsOf(records) == { records[k].id : k \in 1..Len(records) }

\* later is earlier without some of its records: the records that are left
\* are unchanged and in their order.
Shrunk(later, earlier) ==
    later = SelectSeq(earlier, LAMBDA t : t.id \in IdsOf(later))

\* What a step leaves alone: the two records passed to the scorer; the
\* transactions, the receipts, the threshold and the limit passed to
\* find_matches, suggest_matches and auto_match_all; in the auto-match loop
\* the list of receipts and every record of the pool of transactions, from
\* which only the transactions are taken whose ids join
\* matched_transaktion_ids.
InputsKept ==
    /\ arg_transaktion' = arg_transaktion
    /\ arg_beleg' = arg_beleg
    /\ call.pc # "off" =>
          /\ call'.transaktionen = call.transaktionen
          /\ call'.belege = call.belege
          /\ call'.threshold = call.threshold
          /\ call'.limit = call.limit
    /\ am.pc = "loop" =>
          /\ am'.belege = am.belege
          /\ Shrunk(am'.transaktionen, am.transaktionen)
          /\ am.matched_transaktion_ids \subseteq am'.matched_transaktion_ids
          /\ IdsOf(am.transaktionen) \ IdsOf(am'.transaktionen)
               = am'.matched_transaktion_ids \ am.matched_transaktion_ids

====
